---- MODULE Spec2Model ----
(***************************************************************************)
(* Model of the "insider agent" pipeline: the orchestrator worker          *)
(* (transcript buffer, interval timer, topic extraction with remote call   *)
(* and local fallback), the enricher worker and the feed store / feed      *)
(* correlator of the App.                                                   *)
(*                                                                         *)
(* A text is a sequence of one-character strings.  A JavaScript value      *)
(* that can be a string or something else is a record [t, s]: t is its     *)
(* type tag and s the characters of a string.                              *)
(***************************************************************************)
EXTENDS Integers, Sequences, FiniteSets, TLC

\* ------------------------------------------------------------------ bounds

\* transcript messages the App posts in one run
MaxFragments == 2
\* settings changes the user makes in one run
MaxSettingsChanges == 1
\* milliseconds the wall clock (Date.now) advances in one run
MaxClock == 1
\* results the orchestrator posts to the App in one run
MaxResults == 2
\* requests the App posts to the retrieval enricher in one run
MaxRequests == 2
\* sentences of a text a text utility is called with
MaxSentences == 3
\* entries of each list of a parsed enrichment answer
MaxEntries == 2
\* messages the host posts to the orchestrator worker taken alone
MaxMessages == 3
\* messages waiting for the orchestrator worker while settings keep changing
MaxQueue == 1
\* enrichment answers applied to the store taken alone
MaxAnswers == 2
\* interval handles told apart while settings keep changing
MaxHandles == 2

\* ------------------------------------------------------------------ texts

Lower == {"a", "c", "i", "o", "s", "t", "p", "n", "u", "l", "j"}
Upper == {"A", "C"}
Digits == {"7"}
Whitespace == {" ", "\n"}

\* \p{L} or \p{N}
IsLetterOrDigit(c) == c \in Lower \cup Upper \cup Digits

ToLowerChar(c) == CASE c = "A" -> "a" [] c = "C" -> "c" [] OTHER -> c

ToLowerCase(s) == [i \in 1..Len(s) |-> ToLowerChar(s[i])]

RECURSIVE TrimStart(_)
TrimStart(s) ==
  IF s # <<>> /\ Head(s) \in Whitespace THEN TrimStart(Tail(s)) ELSE s

RECURSIVE TrimEnd(_)
TrimEnd(s) ==
  IF s # <<>> /\ s[Len(s)] \in Whitespace
  THEN TrimEnd(SubSeq(s, 1, Len(s) - 1))
  ELSE s

\* a trim that forgets the end of the string
TrimStartOnly(s) == TrimStart(s)

\* a trim that removes nothing
TrimNothing(s) == s

\* String.prototype.trim
Trim(s) == TrimEnd(TrimStart(s))

\* String.prototype.split on runs of characters that are no letter and no
\* digit: st = [toks, cur, sep], sep = the previous character was a separator
RECURSIVE SplitFrom(_, _)
SplitFrom(s, st) ==
  IF s = <<>> THEN Append(st.toks, st.cur)
  ELSE IF IsLetterOrDigit(Head(s))
       THEN SplitFrom(Tail(s), [toks |-> st.toks, cur |-> Append(st.cur, Head(s)), sep |-> FALSE])
       ELSE IF st.sep
            THEN SplitFrom(Tail(s), st)
            ELSE SplitFrom(Tail(s), [toks |-> Append(st.toks, st.cur), cur |-> <<>>, sep |-> TRUE])

SplitWords(s) == SplitFrom(s, [toks |-> <<>>, cur |-> <<>>, sep |-> FALSE])

\* Array.prototype.filter with the test word.length > n
RECURSIVE LongerThan(_, _)
LongerThan(ws, n) ==
  IF ws = <<>> THEN <<>>
  ELSE IF Len(Head(ws)) > n
       THEN <<Head(ws)>> \o LongerThan(Tail(ws), n)
       ELSE LongerThan(Tail(ws), n)

\* a Set that keeps every word
DedupeNothing(ws, seen) == ws

\* Array.from(new Set(ws)): first occurrences, in order
RECURSIVE Dedupe(_, _)
Dedupe(ws, seen) ==
  IF ws = <<>> THEN <<>>
  ELSE IF Head(ws) \in seen
       THEN Dedupe(Tail(ws), seen)
       ELSE <<Head(ws)>> \o Dedupe(Tail(ws), seen \cup {Head(ws)})

\* Array.prototype.slice(0, n)
Slice(ws, n) == SubSeq(ws, 1, IF Len(ws) < n THEN Len(ws) ELSE n)

MinKeywordLength == 3
MaxKeywords == 6

extractKeywordsLocal(text) ==
  Slice(Dedupe(LongerThan(SplitWords(ToLowerCase(text)), MinKeywordLength), {}), MaxKeywords)

RECURSIVE Flatten(_)
Flatten(ss) == IF ss = <<>> THEN <<>> ELSE Head(ss) \o Flatten(Tail(ss))

\* String.prototype.split on a period and the white space that follows it:
\* st = [parts, cur, gap], gap = inside the white space of a separator
RECURSIVE SplitSentencesFrom(_, _)
SplitSentencesFrom(s, st) ==
  IF s = <<>> THEN Append(st.parts, st.cur)
  ELSE IF st.gap /\ Head(s) \in Whitespace
       THEN SplitSentencesFrom(Tail(s), st)
       ELSE IF Head(s) = "." /\ Len(s) > 1 /\ s[2] \in Whitespace
            THEN SplitSentencesFrom(Tail(Tail(s)),
                   [parts |-> Append(st.parts, st.cur), cur |-> <<>>, gap |-> TRUE])
            ELSE SplitSentencesFrom(Tail(s),
                   [parts |-> st.parts, cur |-> Append(st.cur, Head(s)), gap |-> FALSE])

SplitSentences(s) == SplitSentencesFrom(s, [parts |-> <<>>, cur |-> <<>>, gap |-> FALSE])

\* Array.prototype.filter(Boolean) on strings
RECURSIVE NonEmpty(_)
NonEmpty(ss) ==
  IF ss = <<>> THEN <<>>
  ELSE IF Head(ss) = <<>> THEN NonEmpty(Tail(ss))
       ELSE <<Head(ss)>> \o NonEmpty(Tail(ss))

\* Array.prototype.join
RECURSIVE Join(_, _)
Join(ss, sep) ==
  IF ss = <<>> THEN <<>>
  ELSE IF Len(ss) = 1 THEN ss[1]
       ELSE ss[1] \o sep \o Join(Tail(ss), sep)

MaxSummarySentences == 2

summarizeLocal(text) ==
  LET sentences == NonEmpty(SplitSentences(text)) IN
  Join(Slice(sentences, MaxSummarySentences), <<".", " ">>)
    \o (IF Len(sentences) > 0 THEN <<".">> ELSE <<>>)

\* ------------------------------------------------------------------ JS values

Str(s) == [t |-> "str", s |-> s]
Num == [t |-> "num", s |-> <<>>]

StrArray(ws) == [i \in 1..Len(ws) |-> Str(ws[i])]


\* ------------------------------------------------------------------ remote responses

\* A response text is a sequence of lexemes [k, w, v]: a Markdown fence
\* ("fenceJson" opens a json block, "fence" is the bare fence), white space ("ws"), a word (its
\* characters in w) or a JSON document (its value in v).  A JSON value is
\* [t, items, s]: an object with the key topics ("arr": topics is the array
\* items, "str": topics is the string s, "absent": no such key) or null.
JArr(items) == [t |-> "arr", items |-> items, s |-> <<>>]
JStr(s) == [t |-> "str", items |-> <<>>, s |-> s]
JAbsent == [t |-> "absent", items |-> <<>>, s |-> <<>>]
JNull == [t |-> "null", items |-> <<>>, s |-> <<>>]

FenceJson == [k |-> "fenceJson", w |-> <<>>, v |-> JNull]
Fence == [k |-> "fence", w |-> <<>>, v |-> JNull]
Ws == [k |-> "ws", w |-> <<>>, v |-> JNull]
Word(w) == [k |-> "word", w |-> w, v |-> JNull]
Json(v) == [k |-> "json", w |-> <<>>, v |-> v]

\* JSON.stringify of a topic, of a topics value, of a document
SerializeItem(x) == IF x.t = "str" THEN <<"\"">> \o x.s \o <<"\"">> ELSE <<"7">>

RECURSIVE SerializeItems(_)
SerializeItems(xs) ==
  IF xs = <<>> THEN <<>>
  ELSE IF Len(xs) = 1 THEN SerializeItem(xs[1])
       ELSE SerializeItem(xs[1]) \o <<",">> \o SerializeItems(Tail(xs))

SerializeValue(v) ==
  LET key == <<"{", "\"", "t", "o", "p", "i", "c", "s", "\"", ":">> IN
  CASE v.t = "null" -> <<"n", "u", "l", "l">>
    [] v.t = "absent" -> <<"{", "}">>
    [] v.t = "str" -> key \o <<"\"">> \o v.s \o <<"\"", "}">>
    [] OTHER -> key \o <<"[">> \o SerializeItems(v.items) \o <<"]", "}">>

\* the backquote character, written as a character that is no letter either
Backquote == "~"

\* the characters of a lexeme, of a response text
LexemeChars(x) ==
  CASE x.k = "fenceJson" -> <<Backquote, Backquote, Backquote, "j", "s", "o", "n">>
    [] x.k = "fence" -> <<Backquote, Backquote, Backquote>>
    [] x.k = "ws" -> <<"\n">>
    [] x.k = "word" -> x.w
    [] OTHER -> SerializeValue(x.v)

ContentChars(lex) == Flatten([i \in 1..Len(lex) |-> LexemeChars(lex[i])])

\* the two replace calls that remove the Markdown fences: every fence of the
\* kind given and the white space that follows it; drop = inside the white
\* space that follows a removed fence
RECURSIVE RemoveFence(_, _, _)
RemoveFence(lex, fence, drop) ==
  IF lex = <<>> THEN <<>>
  ELSE IF Head(lex).k = fence THEN RemoveFence(Tail(lex), fence, TRUE)
       ELSE IF drop /\ Head(lex).k = "ws" THEN RemoveFence(Tail(lex), fence, TRUE)
            ELSE <<Head(lex)>> \o RemoveFence(Tail(lex), fence, FALSE)

\* String.prototype.trim on a response text
RECURSIVE TrimLexemes(_)
TrimLexemes(lex) ==
  IF lex # <<>> /\ Head(lex).k = "ws" THEN TrimLexemes(Tail(lex))
  ELSE IF lex # <<>> /\ lex[Len(lex)].k = "ws"
       THEN TrimLexemes(SubSeq(lex, 1, Len(lex) - 1))
       ELSE lex

StripFences(lex) ==
  TrimLexemes(RemoveFence(RemoveFence(lex, "fenceJson", FALSE), "fence", FALSE))

\* JSON.parse: the text is one JSON document, or the parse throws
JsonParses(lex) == Len(lex) = 1 /\ lex[1].k = "json"

\* choices[0].message.content of a response: a string (its lexemes in lex),
\* null, or a number
ContentString(lex) == [t |-> "str", lex |-> lex]
ContentNull == [t |-> "null", lex |-> <<>>]
ContentNumber == [t |-> "num", lex |-> <<>>]

\* the body of a response: JSON null, an object without choices, or an object
\* with choices[0].message.content
DataNull == [t |-> "null", content |-> ContentNull]
DataNoChoices == [t |-> "nochoices", content |-> ContentNull]
DataContent(c) == [t |-> "content", content |-> c]

\* how a fetch ends: it rejects, it answers with a non-success status, it
\* answers with a body res.json() rejects, or it answers with a JSON body
Rejected == [kind |-> "reject", data |-> DataNull]
NotOk == [kind |-> "notOk", data |-> DataNull]
BadBody == [kind |-> "badBody", data |-> DataNull]
Ok(data) == [kind |-> "ok", data |-> data]

Casa == <<"c", "a", "s", "a">>
Sinais == <<"s", "i", "n", "a", "i", "s">>
Oi == <<"o", "i">>

ExtractionContents ==
  { ContentNull, ContentNumber,
    ContentString(<<FenceJson, Ws, Json(JArr(<<Str(Sinais)>>)), Ws, Fence>>),
    ContentString(<<Json(JArr(<<>>))>>),
    ContentString(<<Json(JArr(<<Num, Str(Casa)>>))>>),
    ContentString(<<Json(JStr(Casa))>>),
    ContentString(<<Json(JNull)>>),
    ContentString(<<Word(Sinais), Ws, Word(Casa)>>),
    ContentString(<<Word(Oi)>>) }

ExtractionOutcomes ==
  {Rejected, NotOk, BadBody, Ok(DataNull), Ok(DataNoChoices)}
    \cup {Ok(DataContent(c)) : c \in ExtractionContents}


\* ------------------------------------------------------------------ extraction

MinFallbackWordLength == 4
MaxFallbackTopics == 5

Thrown == [threw |-> TRUE, topics |-> <<>>]
Returned(topics) == [threw |-> FALSE, topics |-> topics]

\* the inner try block: read the content, clean it, parse it, take topics
ParseTopics(data) ==
  IF data.t # "content" THEN Thrown
  ELSE IF data.content.t # "str" THEN Thrown
  ELSE LET cleaned == StripFences(data.content.lex) IN
       IF ~JsonParses(cleaned) THEN Thrown
       ELSE LET parsed == cleaned[1].v IN
            IF parsed.t = "null" THEN Thrown
            ELSE Returned(IF parsed.t = "arr" THEN parsed.items ELSE <<>>)

\* an inner catch block that keeps the words the local extractor would keep
ContentWordsShort(data, text) ==
  IF data.t = "null" THEN Thrown
  ELSE IF data.t = "content" /\ data.content.t = "num" THEN Thrown
  ELSE LET chars == IF data.t = "content" /\ data.content.t = "str"
                    THEN ContentChars(data.content.lex)
                    ELSE <<>>
           fallback == Dedupe(LongerThan(SplitWords(chars), MinKeywordLength), {})
       IN Returned(IF Len(fallback) > 0
                   THEN StrArray(Slice(fallback, MaxFallbackTopics))
                   ELSE StrArray(extractKeywordsLocal(text)))

\* the inner catch block: the long words of the response, or the local
\* keywords of the text when the response has none
ContentWords(data, text) ==
  IF data.t = "null" THEN Thrown
  ELSE IF data.t = "content" /\ data.content.t = "num" THEN Thrown
  ELSE LET chars == IF data.t = "content" /\ data.content.t = "str"
                    THEN ContentChars(data.content.lex)
                    ELSE <<>>
           fallback == Dedupe(LongerThan(SplitWords(chars), MinFallbackWordLength), {})
       IN Returned(IF Len(fallback) > 0
                   THEN StrArray(Slice(fallback, MaxFallbackTopics))
                   ELSE StrArray(extractKeywordsLocal(text)))

\* the end of processBuffer: local keywords when there is no topic, one post
FinalResult(topics, text) ==
  << [topics |-> IF Len(topics) = 0 THEN StrArray(extractKeywordsLocal(text)) ELSE topics] >>

\* a non-success path that posts its fallback and forgets to return
RemoteResultNoReturn(text, outcome) ==
  IF outcome.kind = "notOk"
  THEN << [topics |-> StrArray(extractKeywordsLocal(text))] >>
         \o FinalResult(<<>>, text)
  ELSE FinalResult(StrArray(extractKeywordsLocal(text)), text)

\* a processBuffer without its outer catch block: a rejected fetch and a body
\* that is no JSON leave the function before it posts
RemoteResultUncaught(text, outcome) ==
  IF outcome.kind \in {"reject", "badBody"} THEN <<>>
  ELSE IF outcome.kind = "notOk"
  THEN << [topics |-> StrArray(extractKeywordsLocal(text))] >>
  ELSE LET try == ParseTopics(outcome.data)
           catch == ContentWords(outcome.data, text)
       IN IF ~try.threw THEN FinalResult(try.topics, text)
          ELSE IF ~catch.threw THEN FinalResult(catch.topics, text)
          ELSE <<>>

\* the messages processBuffer posts once its fetch has ended with outcome
RemoteResult(text, outcome) ==
  IF outcome.kind = "notOk"
  THEN << [topics |-> StrArray(extractKeywordsLocal(text))] >>
  ELSE IF outcome.kind \in {"reject", "badBody"}
  THEN FinalResult(StrArray(extractKeywordsLocal(text)), text)
  ELSE LET try == ParseTopics(outcome.data)
           catch == ContentWords(outcome.data, text)
       IN IF ~try.threw THEN FinalResult(try.topics, text)
          ELSE IF ~catch.threw THEN FinalResult(catch.topics, text)
          ELSE FinalResult(StrArray(extractKeywordsLocal(text)), text)

\* the remote call went through an error branch: the status test, the inner
\* catch block or the outer catch block
ExtractionFailed(outcome) ==
  outcome.kind \in {"reject", "notOk", "badBody"} \/ ParseTopics(outcome.data).threw

\* the messages processBuffer posts without a fetch
LocalResult(text) == FinalResult(StrArray(extractKeywordsLocal(text)), text)


\* ------------------------------------------------------------------ state

VARIABLES
  \* orchestrator worker: its module-level variables
  buffer,          \* the fragments appended since the last drain, each [id, text,
                   \* offline]: offline is the flag its message carried
  timer,           \* the handle setInterval returned, 0 before the first init
  cadence,         \* milliseconds
  language,
  openaiKey,
  offline,
  \* orchestrator worker: its environment
  intervals,       \* the worker's active intervals, each [handle, period, left]
  handles,         \* the number of handles setInterval has given out
  chunks,          \* every extraction processBuffer has started, in order; failed =
                   \* its remote call has gone through an error branch
  appended,        \* the number of fragments appended so far
  \* message channels, in posting order
  toOrchestrator,
  fromOrchestrator,
  toEnricher,
  fromEnricher,
  \* enricher worker: the requests whose remote call has not ended
  enrichments,
  \* App and store
  mounted,
  settings,
  storeOffline,
  feed,
  loading,         \* loadHistory has been called and has not answered
  settingsChanges,
  \* environment of the main thread
  now,             \* Date.now()
  history,         \* the feed kept by the key/value store
  results,         \* the results of the speech recognition session, each
                   \* [transcript, isFinal]
  \* a call of a text utility, or a run on drawn input
  argument,        \* the text it is called with; the messages drawn for the run
  value            \* [f, out]: the function called, "none" before the call, and
                   \* what it returned

orchestratorVars ==
  <<buffer, timer, cadence, language, openaiKey, offline, intervals, handles,
    chunks, appended>>
channelVars == <<toOrchestrator, fromOrchestrator, toEnricher, fromEnricher>>
appVars == <<mounted, settings, storeOffline, feed, loading, settingsChanges>>
callVars == <<argument, value>>
envVars == <<now, history, results, callVars>>

vars == <<orchestratorVars, channelVars, enrichments, appVars, envVars>>

\* ------------------------------------------------------------------ inputs

NoCall == [f |-> "none", out |-> <<>>]

MsPerSecond == 1000
DefaultCadenceMs == 10000
DefaultCadence == 10

Cadences == {10, 30}
Languages == {"pt-BR"}
Keys == {"", "sk"}
TranscriptTexts == {Casa, Oi, <<" ">>}

\* ------------------------------------------------------------------ orchestrator worker

\* the buffer as the string the code holds: each fragment after one space
BufferString(frags) == Flatten([i \in 1..Len(frags) |-> <<" ">> \o frags[i].text])

FragmentIds(frags) == [i \in 1..Len(frags) |-> frags[i].id]

\* clearInterval that cancels nothing
ClearNothing(table, handle) == table

clearInterval(table, handle) == {t \in table : t.handle # handle}

\* a drain that leaves the fragments in the buffer
DrainKeeps(frags) == frags

\* a drain that leaves the last fragment in the buffer
DrainKeepsLast(frags) == IF frags = <<>> THEN <<>> ELSE <<frags[Len(frags)]>>

\* buffer = ''
Drain(frags) == <<>>

\* a test that looks at the offline flag only
UseLocalWhenOffline(off, key) == off

\* if (offline || !openaiKey)
UseLocal(off, key) == off \/ key = ""

\* a processBuffer that skips the tick while an extraction awaits its answer
processBufferOneAtATime ==
  LET text == Trim(BufferString(buffer)) IN
  IF text = <<>> \/ (\E k \in 1..Len(chunks) : chunks[k].pending)
  THEN UNCHANGED <<buffer, chunks, fromOrchestrator>>
  ELSE /\ buffer' = Drain(buffer)
       /\ chunks' = Append(chunks,
            [frags |-> FragmentIds(buffer), text |-> text,
             remote |-> ~UseLocal(offline, openaiKey),
             key |-> openaiKey, language |-> language,
             pending |-> ~UseLocal(offline, openaiKey),
             posted |-> IF UseLocal(offline, openaiKey) THEN 1 ELSE 0,
             failed |-> FALSE])
       /\ fromOrchestrator' =
            IF UseLocal(offline, openaiKey)
            THEN fromOrchestrator \o LocalResult(text)
            ELSE fromOrchestrator

\* processBuffer up to its first await: nothing for a blank buffer; otherwise
\* the buffer is drained and the extraction is local (posted at once) or
\* remote (one request sent, the answer awaited)
processBuffer ==
  LET text == Trim(BufferString(buffer)) IN
  IF text = <<>>
  THEN UNCHANGED <<buffer, chunks, fromOrchestrator>>
  ELSE /\ buffer' = Drain(buffer)
       /\ IF UseLocal(offline, openaiKey)
          THEN /\ chunks' = Append(chunks,
                    [frags |-> FragmentIds(buffer), text |-> text, remote |-> FALSE,
                     key |-> openaiKey, language |-> language, pending |-> FALSE,
                     posted |-> Len(LocalResult(text)),
                     failed |-> FALSE])
               /\ fromOrchestrator' = fromOrchestrator \o LocalResult(text)
          ELSE /\ chunks' = Append(chunks,
                    [frags |-> FragmentIds(buffer), text |-> text, remote |-> TRUE,
                     key |-> openaiKey, language |-> language, pending |-> TRUE,
                     posted |-> 0,
                     failed |-> FALSE])
               /\ UNCHANGED fromOrchestrator

\* an init handler that empties the buffer
OrchestratorInitDraining ==
  /\ toOrchestrator # <<>>
  /\ Head(toOrchestrator).type = "init"
  /\ LET msg == Head(toOrchestrator) IN
     /\ cadence' = msg.cadence * MsPerSecond
     /\ language' = msg.language
     /\ openaiKey' = msg.openaiKey
     /\ handles' = handles + 1
     /\ timer' = handles + 1
     /\ intervals' =
          (IF timer # 0 THEN clearInterval(intervals, timer) ELSE intervals)
            \cup {[handle |-> handles + 1, period |-> msg.cadence * MsPerSecond,
                   left |-> msg.cadence * MsPerSecond]}
  /\ toOrchestrator' = Tail(toOrchestrator)
  /\ buffer' = Drain(buffer)
  /\ UNCHANGED <<offline, chunks, appended>>
  /\ UNCHANGED <<fromOrchestrator, toEnricher, fromEnricher, enrichments, appVars, envVars>>

\* self.onmessage of the orchestrator, message of type init
OrchestratorInit ==
  /\ toOrchestrator # <<>>
  /\ Head(toOrchestrator).type = "init"
  /\ LET msg == Head(toOrchestrator) IN
     /\ cadence' = msg.cadence * MsPerSecond
     /\ language' = msg.language
     /\ openaiKey' = msg.openaiKey
     /\ handles' = handles + 1
     /\ timer' = handles + 1
     /\ intervals' =
          (IF timer # 0 THEN clearInterval(intervals, timer) ELSE intervals)
            \cup {[handle |-> handles + 1, period |-> msg.cadence * MsPerSecond,
                   left |-> msg.cadence * MsPerSecond]}
  /\ toOrchestrator' = Tail(toOrchestrator)
  /\ UNCHANGED <<buffer, offline, chunks, appended>>
  /\ UNCHANGED <<fromOrchestrator, toEnricher, fromEnricher, enrichments, appVars, envVars>>

\* a transcript handler that keeps the offline flag once a message has set it
OrchestratorTranscriptSticky ==
  /\ toOrchestrator # <<>>
  /\ Head(toOrchestrator).type = "transcript"
  /\ LET msg == Head(toOrchestrator) IN
     /\ buffer' = Append(buffer, [id |-> appended + 1, text |-> msg.text, offline |-> msg.offline])
     /\ offline' = (offline \/ msg.offline)
  /\ appended' = appended + 1
  /\ toOrchestrator' = Tail(toOrchestrator)
  /\ UNCHANGED <<timer, cadence, language, openaiKey, intervals, handles, chunks>>
  /\ UNCHANGED <<fromOrchestrator, toEnricher, fromEnricher, enrichments, appVars, envVars>>

\* a transcript handler that drops what comes before the first init
OrchestratorTranscriptAfterInit ==
  /\ toOrchestrator # <<>>
  /\ Head(toOrchestrator).type = "transcript"
  /\ LET msg == Head(toOrchestrator) IN
     /\ buffer' = IF timer = 0 THEN buffer
                  ELSE Append(buffer, [id |-> appended + 1, text |-> msg.text,
                                       offline |-> msg.offline])
     /\ offline' = msg.offline
  /\ appended' = appended + 1
  /\ toOrchestrator' = Tail(toOrchestrator)
  /\ UNCHANGED <<timer, cadence, language, openaiKey, intervals, handles, chunks>>
  /\ UNCHANGED <<fromOrchestrator, toEnricher, fromEnricher, enrichments, appVars, envVars>>

\* self.onmessage of the orchestrator, message of type transcript
OrchestratorTranscript ==
  /\ toOrchestrator # <<>>
  /\ Head(toOrchestrator).type = "transcript"
  /\ LET msg == Head(toOrchestrator) IN
     /\ buffer' = Append(buffer, [id |-> appended + 1, text |-> msg.text, offline |-> msg.offline])
     /\ offline' = msg.offline
  /\ appended' = appended + 1
  /\ toOrchestrator' = Tail(toOrchestrator)
  /\ UNCHANGED <<timer, cadence, language, openaiKey, intervals, handles, chunks>>
  /\ UNCHANGED <<fromOrchestrator, toEnricher, fromEnricher, enrichments, appVars, envVars>>

\* the intervals of table after d milliseconds
After(table, d) == {[t EXCEPT !.left = t.left - d] : t \in table}

\* time passes in the worker until the next interval is due
Advance ==
  /\ intervals # {}
  /\ \A t \in intervals : t.left > 0
  /\ \E t \in intervals :
       /\ \A u \in intervals : t.left <= u.left
       /\ intervals' = After(intervals, t.left)
  /\ UNCHANGED <<buffer, timer, cadence, language, openaiKey, offline, handles, chunks, appended>>
  /\ UNCHANGED <<channelVars, enrichments, appVars, envVars>>

\* an interval of the worker is due: processBuffer runs, the interval restarts
Tick(t) ==
  /\ t \in intervals
  /\ t.left = 0
  /\ processBuffer
  /\ intervals' = (intervals \ {t}) \cup {[t EXCEPT !.left = t.period]}
  /\ UNCHANGED <<timer, cadence, language, openaiKey, offline, handles, appended>>
  /\ UNCHANGED <<toOrchestrator, toEnricher, fromEnricher, enrichments, appVars, envVars>>

\* an end of extraction that reads the text of the latest flush, as if the
\* text were a variable of the module
ExtractionEndsSharedText(k, outcome) ==
  /\ k \in 1..Len(chunks)
  /\ chunks[k].pending
  /\ LET msgs == RemoteResult(chunks[Len(chunks)].text, outcome) IN
     /\ chunks' = [chunks EXCEPT ![k].pending = FALSE, ![k].posted = Len(msgs),
                                 ![k].failed = ExtractionFailed(outcome)]
     /\ fromOrchestrator' = fromOrchestrator \o msgs
  /\ UNCHANGED <<buffer, timer, cadence, language, openaiKey, offline, intervals, handles,
                 appended>>
  /\ UNCHANGED <<toOrchestrator, toEnricher, fromEnricher, enrichments, appVars, envVars>>

\* the fetch of extraction k ends with outcome: processBuffer resumes and posts
ExtractionEnds(k, outcome) ==
  /\ k \in 1..Len(chunks)
  /\ chunks[k].pending
  /\ LET msgs == RemoteResult(chunks[k].text, outcome) IN
     /\ chunks' = [chunks EXCEPT ![k].pending = FALSE, ![k].posted = Len(msgs),
                                 ![k].failed = ExtractionFailed(outcome)]
     /\ fromOrchestrator' = fromOrchestrator \o msgs
  /\ UNCHANGED <<buffer, timer, cadence, language, openaiKey, offline, intervals, handles,
                 appended>>
  /\ UNCHANGED <<toOrchestrator, toEnricher, fromEnricher, enrichments, appVars, envVars>>


\* ------------------------------------------------------------------ orchestrator worker, the variant without a key test

\* This variant of the worker has the same module variables and the same
\* self.onmessage; its processBuffer tests the offline flag only, takes the
\* local topics from the first tokens of the text and awaits the fetch
\* outside any try block.  Of the result it posts, the topics are modelled.

MaxEarlierTopics == 5

\* Array.from(new Set(text.split(non-word characters).slice(0, 5))); the text
\* is trimmed and holds letters and white space, so no token is empty
EarlierLocalTopics(text) ==
  StrArray(Dedupe(Slice(SplitWords(text), MaxEarlierTopics), {}))

Undefined == [t |-> "undefined", s |-> <<>>]
Null == [t |-> "null", s |-> <<>>]

\* result = JSON.parse(content): the value posted in place of the result
EarlierParsed(v) ==
  CASE v.t = "null" -> Null
    [] v.t = "arr" -> [topics |-> v.items]
    [] v.t = "str" -> [topics |-> Str(v.s)]
    [] OTHER -> [topics |-> Undefined]

\* the messages processBuffer posts once its fetch has ended with outcome: a
\* rejected fetch, a body res.json() rejects and a body that is null leave
\* the function with an error nobody catches; the status is not looked at
EarlierResult(text, outcome) ==
  IF outcome.kind \in {"reject", "badBody"} THEN <<>>
  ELSE IF outcome.data.t = "null" THEN <<>>
  ELSE IF outcome.data.t = "nochoices" THEN << [topics |-> <<>>] >>
  ELSE LET content == outcome.data.content IN
       IF content.t = "null" THEN <<Null>>
       ELSE IF content.t = "num" THEN <<Num>>
       ELSE IF JsonParses(TrimLexemes(content.lex))
            THEN <<EarlierParsed(TrimLexemes(content.lex)[1].v)>>
            ELSE << [topics |-> <<>>] >>

\* the remote call of this variant ended with an error: one nobody catches,
\* or one of JSON.parse, which the catch block answers
EarlierFailed(outcome) ==
  \/ outcome.kind \in {"reject", "badBody"}
  \/ outcome.data.t \in {"null", "nochoices"}
  \/ /\ outcome.data.t = "content"
     /\ outcome.data.content.t = "str"
     /\ ~JsonParses(TrimLexemes(outcome.data.content.lex))

\* processBuffer of this variant up to its first await
processBufferEarlier ==
  LET text == Trim(BufferString(buffer)) IN
  IF text = <<>>
  THEN UNCHANGED <<buffer, chunks, fromOrchestrator>>
  ELSE /\ buffer' = Drain(buffer)
       /\ IF offline
          THEN /\ chunks' = Append(chunks,
                    [frags |-> FragmentIds(buffer), text |-> text, remote |-> FALSE,
                     key |-> openaiKey, language |-> language, pending |-> FALSE,
                     posted |-> 1,
                     failed |-> FALSE])
               /\ fromOrchestrator' =
                    Append(fromOrchestrator, [topics |-> EarlierLocalTopics(text)])
          ELSE /\ chunks' = Append(chunks,
                    [frags |-> FragmentIds(buffer), text |-> text, remote |-> TRUE,
                     key |-> openaiKey, language |-> language, pending |-> TRUE,
                     posted |-> 0,
                     failed |-> FALSE])
               /\ UNCHANGED fromOrchestrator

\* an interval of this variant is due
TickEarlier(t) ==
  /\ t \in intervals
  /\ t.left = 0
  /\ processBufferEarlier
  /\ intervals' = (intervals \ {t}) \cup {[t EXCEPT !.left = t.period]}
  /\ UNCHANGED <<timer, cadence, language, openaiKey, offline, handles, appended>>
  /\ UNCHANGED <<toOrchestrator, toEnricher, fromEnricher, enrichments, appVars, envVars>>

\* the fetch of extraction k of this variant ends with outcome
ExtractionEndsEarlier(k, outcome) ==
  /\ k \in 1..Len(chunks)
  /\ chunks[k].pending
  /\ LET msgs == EarlierResult(chunks[k].text, outcome) IN
     /\ chunks' = [chunks EXCEPT ![k].pending = FALSE, ![k].posted = Len(msgs),
                                 ![k].failed = EarlierFailed(outcome)]
     /\ fromOrchestrator' = fromOrchestrator \o msgs
  /\ UNCHANGED <<buffer, timer, cadence, language, openaiKey, offline, intervals, handles,
                 appended>>
  /\ UNCHANGED <<toOrchestrator, toEnricher, fromEnricher, enrichments, appVars, envVars>>


\* ------------------------------------------------------------------ enricher worker

\* An insight or a news item is [k, of]: k names the template or the source
\* of the text, of the topics the text was written for.
Made(k, topics) == [k |-> k, of |-> topics]

MaxPlaceholderNews == 3
FailureTopics == 2

EachTopic(k, topics) == [i \in 1..Len(topics) |-> Made(k, <<topics[i]>>)]

\* what the remote model answers to an enrichment prompt: the number of
\* valid insights and of valid news items of a parsed answer, or a text that
\* is no JSON (raw = it is not empty)
Parsed(i, n) == [t |-> "json", insights |-> i, news |-> n, raw |-> TRUE]
Unparsed(raw) == [t |-> "text", insights |-> 0, news |-> 0, raw |-> raw]
\* a body that is JSON null, and a content that is a number: reading the
\* content throws in the inner try block and again in its catch block
BodyNull == [t |-> "null", insights |-> 0, news |-> 0, raw |-> FALSE]
ContentNotString == [t |-> "num", insights |-> 0, news |-> 0, raw |-> TRUE]

\* the timer of withTimeout fires before the fetch has answered
TimedOut == [kind |-> "timeout", data |-> Unparsed(FALSE)]

EnrichmentOutcomes ==
  { [kind |-> "reject", data |-> Unparsed(FALSE)],
    TimedOut,
    [kind |-> "notOk", data |-> Unparsed(FALSE)],
    [kind |-> "badBody", data |-> Unparsed(FALSE)],
    [kind |-> "ok", data |-> BodyNull],
    [kind |-> "ok", data |-> ContentNotString],
    [kind |-> "ok", data |-> Unparsed(FALSE)],
    [kind |-> "ok", data |-> Unparsed(TRUE)],
    [kind |-> "ok", data |-> Parsed(0, 0)],
    [kind |-> "ok", data |-> Parsed(3, 3)] }

\* the outcomes that end in the outer catch block
Caught(outcome) == outcome.kind # "ok" \/ outcome.data.t \in {"null", "num"}

\* the answer to a request without topics
NoTopicsAnswer(id) ==
  [id |-> id, news |-> <<Made("noTopic", <<>>)>>, insights |-> <<Made("waiting", <<>>)>>]

\* an offline answer with a search link for every topic
OfflineAnswerAllNews(id, topics) ==
  [id |-> id,
   news |-> EachTopic("search", topics),
   insights |-> EachTopic("offline", topics)]

\* the answer to a request that is offline or has no key
OfflineAnswer(id, topics) ==
  [id |-> id,
   news |-> EachTopic("search", Slice(topics, MaxPlaceholderNews)),
   insights |-> EachTopic("offline", topics)]

\* the answer to a request whose remote call ended with outcome
RemoteAnswer(id, topics, outcome) ==
  LET got ==
        IF Caught(outcome)
        THEN [insights |-> <<Made("failed", Slice(topics, FailureTopics))>>, news |-> <<>>]
        ELSE IF outcome.data.t = "json"
        THEN [insights |-> [i \in 1..outcome.data.insights |-> Made("remote", topics)],
              news |-> [i \in 1..outcome.data.news |-> Made("remote", topics)]]
        ELSE [insights |-> IF outcome.data.raw THEN <<Made("raw", topics)>> ELSE <<>>,
              news |-> <<>>]
  IN [id |-> id,
      news |-> IF Len(got.news) = 0
               THEN EachTopic("newsSearch", Slice(topics, MaxPlaceholderNews))
               ELSE got.news,
      insights |-> IF Len(got.insights) = 0 THEN EachTopic("radar", topics) ELSE got.insights]

\* a handler whose outer catch block is missing: an error leaves the handler
PostsUnlessThrown(id, topics, outcome) ==
  IF Caught(outcome) THEN <<>> ELSE <<RemoteAnswer(id, topics, outcome)>>

\* the messages the handler posts once its remote call has ended with outcome
EnricherPosts(id, topics, outcome) == <<RemoteAnswer(id, topics, outcome)>>

\* a test of the topics that never finds them empty
NoTopicsNever(topics) == FALSE

\* !topics || topics.length === 0
NoTopics(topics) == Len(topics) = 0

\* self.onmessage of the enricher up to its first await
EnricherReceives ==
  /\ toEnricher # <<>>
  /\ LET msg == Head(toEnricher) IN
     IF NoTopics(msg.topics)
     THEN /\ fromEnricher' = Append(fromEnricher, NoTopicsAnswer(msg.id))
          /\ UNCHANGED enrichments
     ELSE IF msg.offline \/ msg.openaiKey = ""
     THEN /\ fromEnricher' = Append(fromEnricher, OfflineAnswer(msg.id, msg.topics))
          /\ UNCHANGED enrichments
     ELSE /\ enrichments' = Append(enrichments,
               [id |-> msg.id, topics |-> msg.topics, phase |-> "fetch"])
          /\ UNCHANGED fromEnricher
  /\ toEnricher' = Tail(toEnricher)
  /\ UNCHANGED <<orchestratorVars, toOrchestrator, fromOrchestrator, appVars, envVars>>

RemoveAt(q, i) == SubSeq(q, 1, i - 1) \o SubSeq(q, i + 1, Len(q))

\* the fetch of the i-th waiting request answers with a success status
\* before the timer of withTimeout fires: the handler goes on to await
\* res.json(), which no timer covers
HeadersArrive(i) ==
  /\ i \in 1..Len(enrichments)
  /\ enrichments[i].phase = "fetch"
  /\ enrichments' = [enrichments EXCEPT ![i].phase = "body"]
  /\ UNCHANGED <<orchestratorVars, channelVars, appVars, envVars>>

\* a handler that sends its request again when the call has failed
EnrichmentEndsRetry(i, outcome) ==
  /\ i \in 1..Len(enrichments)
  /\ enrichments[i].phase =
       (IF outcome.kind \in {"reject", "timeout", "notOk"} THEN "fetch" ELSE "body")
  /\ IF Caught(outcome)
     THEN /\ enrichments' = [enrichments EXCEPT ![i].phase = "fetch"]
          /\ UNCHANGED fromEnricher
     ELSE /\ fromEnricher' =
               fromEnricher \o EnricherPosts(enrichments[i].id, enrichments[i].topics, outcome)
          /\ enrichments' = RemoveAt(enrichments, i)
  /\ UNCHANGED <<orchestratorVars, toOrchestrator, fromOrchestrator, toEnricher, appVars, envVars>>

\* the await of the i-th waiting request ends with outcome: the fetch rejects,
\* times out or answers with a non-success status, or res.json() ends
EnrichmentEnds(i, outcome) ==
  /\ i \in 1..Len(enrichments)
  /\ enrichments[i].phase =
       (IF outcome.kind \in {"reject", "timeout", "notOk"} THEN "fetch" ELSE "body")
  /\ fromEnricher' =
       fromEnricher \o EnricherPosts(enrichments[i].id, enrichments[i].topics, outcome)
  /\ enrichments' = RemoveAt(enrichments, i)
  /\ UNCHANGED <<orchestratorVars, toOrchestrator, fromOrchestrator, toEnricher, appVars, envVars>>


\* ------------------------------------------------------------------ enricher worker, the retrieval variant

\* This variant of the enricher reads newsApiKey and bingKey from the request
\* and asks two news services about every topic, one after the other.

MaxMockNews == 2

\* the answer when offline or without any key: mock news and mock insights
MockAnswer(id, topics) ==
  [id |-> id,
   news |-> EachTopic("mock", Slice(topics, MaxMockNews)),
   insights |-> EachTopic("mockInsight", topics)]

\* the answer to a request without topics: two empty arrays
EmptyAnswer(id) == [id |-> id, news |-> <<>>, insights |-> <<>>]

\* the queries of the loop, in its order: for every topic the services the
\* request has a key for, NewsAPI before Bing; a query is <<topic index,
\* service>>
QueryOrder(msg) ==
  Flatten([i \in 1..Len(msg.topics) |->
             (IF msg.newsApiKey # "" THEN << <<i, "newsapi">> >> ELSE <<>>)
               \o (IF msg.bingKey # "" THEN << <<i, "bing">> >> ELSE <<>>)])

\* how a query ends: the service answers with an article, it answers without
\* one, the fetch rejects, or res.json() rejects
QueryOutcomes == {"article", "none", "reject", "badBody"}

\* a loop that a failed query ends: what it has is posted
AfterQueryAborting(r, outcome) ==
  LET order == QueryOrder(r)
      q == order[r.done + 1]
      topicOver == r.done + 1 = Len(order) \/ order[r.done + 2][1] # q[1]
  IN [r EXCEPT
        !.done = IF outcome \in {"reject", "badBody"} THEN Len(order) ELSE r.done + 1,
        !.news = IF outcome = "article"
                 THEN Append(r.news, Made(q[2], <<r.topics[q[1]]>>))
                 ELSE r.news,
        !.insights = IF topicOver
                     THEN Append(r.insights, Made("identified", <<r.topics[q[1]]>>))
                     ELSE r.insights]

\* the request r after its current query has ended with outcome: the news
\* take the article found; the insight of the topic is added when that was
\* the last query about the topic
AfterQuery(r, outcome) ==
  LET order == QueryOrder(r)
      q == order[r.done + 1]
      topicOver == r.done + 1 = Len(order) \/ order[r.done + 2][1] # q[1]
  IN [r EXCEPT
        !.done = r.done + 1,
        !.news = IF outcome = "article"
                 THEN Append(r.news, Made(q[2], <<r.topics[q[1]]>>))
                 ELSE r.news,
        !.insights = IF topicOver
                     THEN Append(r.insights, Made("identified", <<r.topics[q[1]]>>))
                     ELSE r.insights]

\* self.onmessage of this variant up to its first await
RetrievalReceives ==
  /\ toEnricher # <<>>
  /\ LET msg == Head(toEnricher) IN
     IF msg.offline \/ (msg.newsApiKey = "" /\ msg.bingKey = "")
     THEN /\ fromEnricher' = Append(fromEnricher, MockAnswer(msg.id, msg.topics))
          /\ UNCHANGED enrichments
     ELSE IF Len(msg.topics) = 0
     THEN /\ fromEnricher' = Append(fromEnricher, EmptyAnswer(msg.id))
          /\ UNCHANGED enrichments
     ELSE /\ enrichments' = Append(enrichments,
               [id |-> msg.id, topics |-> msg.topics, newsApiKey |-> msg.newsApiKey,
                bingKey |-> msg.bingKey, done |-> 0, news |-> <<>>, insights |-> <<>>])
          /\ UNCHANGED fromEnricher
  /\ toEnricher' = Tail(toEnricher)
  /\ UNCHANGED <<orchestratorVars, toOrchestrator, fromOrchestrator, appVars, envVars>>

\* the query the i-th waiting request awaits ends with outcome: the loop goes
\* on to its next query, or it is over and the answer is posted
RetrievalQueryEnds(i, outcome) ==
  /\ i \in 1..Len(enrichments)
  /\ LET r == AfterQuery(enrichments[i], outcome) IN
     IF r.done = Len(QueryOrder(r))
     THEN /\ fromEnricher' =
               Append(fromEnricher, [id |-> r.id, news |-> r.news, insights |-> r.insights])
          /\ enrichments' = RemoveAt(enrichments, i)
     ELSE /\ enrichments' = [enrichments EXCEPT ![i] = r]
          /\ UNCHANGED fromEnricher
  /\ UNCHANGED <<orchestratorVars, toOrchestrator, fromOrchestrator, toEnricher, appVars, envVars>>


\* ------------------------------------------------------------------ store

Ids(f) == {f[i].id : i \in 1..Len(f)}

\* an update that overwrites every item of the feed
UpdateEveryItem(f, id, data) ==
  [i \in 1..Len(f) |-> [f[i] EXCEPT !.news = data.news, !.insights = data.insights]]

\* an update that adds an item when no item has the id
UpdateOrAppend(f, id, data) ==
  IF id \in Ids(f)
  THEN [i \in 1..Len(f) |->
          IF f[i].id = id
          THEN [f[i] EXCEPT !.news = data.news, !.insights = data.insights]
          ELSE f[i]]
  ELSE Append(f, [id |-> id, topics |-> <<>>, news |-> data.news,
                  insights |-> data.insights, timestamp |-> id])

\* an update that adds the news and the insights to those of the item
UpdateAppending(f, id, data) ==
  [i \in 1..Len(f) |->
     IF f[i].id = id
     THEN [f[i] EXCEPT !.news = f[i].news \o data.news,
                       !.insights = f[i].insights \o data.insights]
     ELSE f[i]]

\* the feed updateFeedItem stores: data spread over the items whose id is id
updateFeedItem(f, id, data) ==
  [i \in 1..Len(f) |->
     IF f[i].id = id
     THEN [f[i] EXCEPT !.news = data.news, !.insights = data.insights]
     ELSE f[i]]

\* the feed addFeedItem stores
addFeedItem(f, item) == Append(f, item)

\* const id = Date.now()
NewId(f, clock) == clock

\* ------------------------------------------------------------------ App

InitMessage(st) ==
  [type |-> "init", cadence |-> st.cadence, language |-> st.language,
   openaiKey |-> st.openaiKey, text |-> <<>>, offline |-> FALSE]

TranscriptMessage(text, off) ==
  [type |-> "transcript", cadence |-> 0, language |-> "", openaiKey |-> "",
   text |-> text, offline |-> off]

Transcripts(q) == Cardinality({i \in 1..Len(q) : q[i].type = "transcript"})

\* the App mounts: the first effect loads the cached feed and posts init, the
\* second effect posts init as well
Mount ==
  /\ ~mounted
  /\ mounted' = TRUE
  /\ loading' = <<history>>
  /\ toOrchestrator' = toOrchestrator \o <<InitMessage(settings), InitMessage(settings)>>
  /\ UNCHANGED <<settings, storeOffline, feed, settingsChanges>>
  /\ UNCHANGED <<orchestratorVars, fromOrchestrator, toEnricher, fromEnricher, enrichments, envVars>>

\* loadCachedFeed resumes: a cached feed that is not empty replaces the feed
LoadAnswers ==
  /\ loading # <<>>
  /\ feed' = IF Len(Head(loading)) > 0 THEN Head(loading) ELSE feed
  /\ loading' = <<>>
  /\ UNCHANGED <<mounted, settings, storeOffline, settingsChanges>>
  /\ UNCHANGED <<orchestratorVars, channelVars, enrichments, envVars>>

SettingsChoices == [cadence : Cadences, language : Languages, openaiKey : Keys]

\* the settings that differ from st in exactly one field
OneFieldChanged(st) ==
  {x \in SettingsChoices :
     Cardinality({f \in {"cadence", "language", "openaiKey"} : x[f] # st[f]}) = 1}

\* the user changes one setting: setSettings, then the effect posts init
ChangeSettings(st) ==
  /\ mounted
  /\ settingsChanges < MaxSettingsChanges
  /\ st \in OneFieldChanged(settings)
  /\ settings' = st
  /\ settingsChanges' = settingsChanges + 1
  /\ toOrchestrator' = Append(toOrchestrator, InitMessage(st))
  /\ UNCHANGED <<mounted, storeOffline, feed, loading>>
  /\ UNCHANGED <<orchestratorVars, fromOrchestrator, toEnricher, fromEnricher, enrichments, envVars>>

\* the window's online and offline events
SetOffline(o) ==
  /\ mounted
  /\ storeOffline # o
  /\ storeOffline' = o
  /\ UNCHANGED <<mounted, settings, feed, loading, settingsChanges>>
  /\ UNCHANGED <<orchestratorVars, channelVars, enrichments, envVars>>

\* recognition.onresult with a final result
SpeechFinal(text) ==
  /\ mounted
  /\ appended + Transcripts(toOrchestrator) < MaxFragments
  /\ toOrchestrator' = Append(toOrchestrator, TranscriptMessage(text, storeOffline))
  /\ UNCHANGED <<mounted, settings, storeOffline, feed, loading, settingsChanges>>
  /\ UNCHANGED <<orchestratorVars, fromOrchestrator, toEnricher, fromEnricher, enrichments, envVars>>

\* ------------------------------------------------------------------ speech recognition

\* A recognition result is [transcript, isFinal].  The session keeps every
\* result since it started: the final ones first, then the interim ones.
SpeechResult(text, final) == [transcript |-> text, isFinal |-> final]

SpeechTexts == {Casa, Oi}

\* Array.prototype.join(' ')
RECURSIVE JoinSpaced(_)
JoinSpaced(ts) ==
  IF ts = <<>> THEN <<>>
  ELSE IF Len(ts) = 1 THEN ts[1]
       ELSE ts[1] \o <<" ">> \o JoinSpaced(Tail(ts))

\* Array.from(e.results).map((r) => r[0].transcript).join(' ')
Transcript(rs) == JoinSpaced([i \in 1..Len(rs) |-> rs[i].transcript])

Interim(rs) == {i \in 1..Len(rs) : ~rs[i].isFinal}

\* the lists the session can hand to onresult after rs: one more result at
\* the end (interim, or final when no result is interim), the first interim
\* result made final, or an interim result heard differently
RecognitionSteps(rs) ==
  {Append(rs, SpeechResult(t, FALSE)) : t \in SpeechTexts}
    \cup (IF Interim(rs) = {} THEN {Append(rs, SpeechResult(t, TRUE)) : t \in SpeechTexts} ELSE {})
    \cup {[rs EXCEPT ![i] = SpeechResult(t, TRUE)] :
            i \in {j \in Interim(rs) : \A h \in Interim(rs) : j <= h}, t \in SpeechTexts}
    \cup {[rs EXCEPT ![i].transcript = t] : i \in Interim(rs), t \in SpeechTexts}

\* a handler that posts whatever the last result is
PostsAlways(rs) == TRUE

\* if (e.results[e.results.length - 1].isFinal)
PostsTranscript(rs) == rs[Len(rs)].isFinal

\* recognition.onresult: the session hands over its results, rs; the joined
\* transcript is posted when the last result is final
OnResult(rs) ==
  /\ mounted
  /\ rs \in RecognitionSteps(results)
  /\ rs # results
  /\ Len(rs) <= MaxFragments
  /\ results' = rs
  /\ IF PostsTranscript(rs)
     THEN /\ appended + Transcripts(toOrchestrator) < MaxFragments
          /\ toOrchestrator' = Append(toOrchestrator, TranscriptMessage(Transcript(rs), storeOffline))
     ELSE UNCHANGED toOrchestrator
  /\ UNCHANGED <<orchestratorVars, fromOrchestrator, toEnricher, fromEnricher, enrichments,
                 appVars, now, history, callVars>>

\* the session is over and startListening starts a new one: no result yet
RecognitionRestarts ==
  /\ mounted
  /\ results # <<>>
  /\ results' = <<>>
  /\ UNCHANGED <<orchestratorVars, channelVars, enrichments, appVars, now, history, callVars>>

\* orchestrator.onmessage of the App: a new feed item, saved, then enriched
OnOrchestratorMessage ==
  /\ mounted
  /\ fromOrchestrator # <<>>
  /\ LET msg == Head(fromOrchestrator)
         id == NewId(feed, now)
         item == [id |-> id, topics |-> msg.topics, news |-> <<>>, insights |-> <<>>,
                  timestamp |-> now]
     IN /\ feed' = addFeedItem(feed, item)
        /\ history' = addFeedItem(feed, item)
        /\ toEnricher' = Append(toEnricher,
             [id |-> id, topics |-> msg.topics, openaiKey |-> settings.openaiKey,
              offline |-> storeOffline])
  /\ fromOrchestrator' = Tail(fromOrchestrator)
  /\ UNCHANGED <<mounted, settings, storeOffline, loading, settingsChanges, now, results, callVars>>
  /\ UNCHANGED <<orchestratorVars, toOrchestrator, fromEnricher, enrichments>>

\* enricher.onmessage of the App: the answer is merged into the feed, saved
OnEnricherMessage ==
  /\ mounted
  /\ fromEnricher # <<>>
  /\ LET msg == Head(fromEnricher)
         f == updateFeedItem(feed, msg.id, [news |-> msg.news, insights |-> msg.insights])
     IN /\ feed' = f
        /\ history' = f
  /\ fromEnricher' = Tail(fromEnricher)
  /\ UNCHANGED <<mounted, settings, storeOffline, loading, settingsChanges, now, results, callVars>>
  /\ UNCHANGED <<orchestratorVars, toOrchestrator, fromOrchestrator, toEnricher, enrichments>>

\* a millisecond passes on the wall clock
ClockAdvances ==
  /\ now <= MaxClock
  /\ now' = now + 1
  /\ UNCHANGED <<history, results, callVars>>
  /\ UNCHANGED <<orchestratorVars, channelVars, enrichments, appVars>>

\* ------------------------------------------------------------------ specification

\* a feed item an earlier session left in the key/value store
OldItem ==
  [id |-> 0, topics |-> <<Str(Casa)>>, news |-> <<>>, insights |-> <<>>, timestamp |-> 0]

Init ==
  /\ buffer = <<>>
  /\ timer = 0
  /\ cadence = DefaultCadenceMs
  /\ language = "pt-BR"
  /\ openaiKey = ""
  /\ offline = FALSE
  /\ intervals = {}
  /\ handles = 0
  /\ chunks = <<>>
  /\ appended = 0
  /\ toOrchestrator = <<>>
  /\ fromOrchestrator = <<>>
  /\ toEnricher = <<>>
  /\ fromEnricher = <<>>
  /\ enrichments = <<>>
  /\ mounted = FALSE
  /\ settings = [cadence |-> DefaultCadence, language |-> "pt-BR", openaiKey |-> ""]
  /\ storeOffline = FALSE
  /\ feed = <<>>
  /\ loading = <<>>
  /\ settingsChanges = 0
  /\ now = 1
  /\ history \in {<<>>, <<OldItem>>}
  /\ results = <<>>
  /\ argument = <<>>
  /\ value = NoCall

\* the orchestrator worker and what the App sends it
Next ==
  \/ Mount
  \/ \E st \in SettingsChoices : ChangeSettings(st)
  \/ \E o \in BOOLEAN : SetOffline(o)
  \/ \E text \in TranscriptTexts : SpeechFinal(text)
  \/ OrchestratorInit
  \/ OrchestratorTranscript
  \/ Advance
  \/ \E t \in intervals : Tick(t)
  \/ \E k \in 1..Len(chunks), outcome \in ExtractionOutcomes : ExtractionEnds(k, outcome)

Spec == Init /\ [][Next]_vars

\* the variant of the worker without a key test and what the App sends it
NextEarlier ==
  \/ Mount
  \/ \E st \in SettingsChoices : ChangeSettings(st)
  \/ \E o \in BOOLEAN : SetOffline(o)
  \/ \E text \in TranscriptTexts : SpeechFinal(text)
  \/ OrchestratorInit
  \/ OrchestratorTranscript
  \/ Advance
  \/ \E t \in intervals : TickEarlier(t)
  \/ \E k \in 1..Len(chunks), outcome \in ExtractionOutcomes : ExtractionEndsEarlier(k, outcome)

SpecEarlier == Init /\ [][NextEarlier]_vars


\* ------------------------------------------------------------------ the feed alone

\* topics the orchestrator can post: none, or what a remote answer holds
ResultTopics == {<<>>, <<Str(Sinais), Num, Str(Casa), Str(Oi)>>}

RECURSIVE SeqsUpTo(_, _)
SeqsUpTo(S, n) ==
  IF n = 0 THEN {<<>>}
  ELSE SeqsUpTo(S, n - 1)
         \cup {Append(q, x) : q \in {p \in SeqsUpTo(S, n - 1) : Len(p) = n - 1}, x \in S}

\* the App before it mounts, the results of the orchestrator on their way
InitFeed ==
  /\ buffer = <<>>
  /\ timer = 0
  /\ cadence = DefaultCadenceMs
  /\ language = "pt-BR"
  /\ openaiKey = ""
  /\ offline = FALSE
  /\ intervals = {}
  /\ handles = 0
  /\ chunks = <<>>
  /\ appended = 0
  /\ toOrchestrator = <<>>
  /\ fromOrchestrator \in SeqsUpTo({[topics |-> t] : t \in ResultTopics}, MaxResults)
  /\ toEnricher = <<>>
  /\ fromEnricher = <<>>
  /\ enrichments = <<>>
  /\ mounted = FALSE
  /\ settings \in {st \in SettingsChoices : st.cadence = DefaultCadence}
  /\ storeOffline = FALSE
  /\ feed = <<>>
  /\ loading = <<>>
  /\ settingsChanges = 0
  /\ now = 1
  /\ history \in {<<>>, <<OldItem>>}
  /\ results = <<>>
  /\ argument = <<>>
  /\ value = NoCall

\* the App, its store and the enricher worker
NextFeed ==
  \/ Mount
  \/ LoadAnswers
  \/ \E o \in BOOLEAN : SetOffline(o)
  \/ OnOrchestratorMessage
  \/ EnricherReceives
  \/ \E i \in 1..Len(enrichments) : HeadersArrive(i)
  \/ \E i \in 1..Len(enrichments), outcome \in EnrichmentOutcomes : EnrichmentEnds(i, outcome)
  \/ OnEnricherMessage
  \/ ClockAdvances

SpecFeed == InitFeed /\ [][NextFeed]_vars


\* ------------------------------------------------------------------ the retrieval enricher alone

\* the requests the App can post to the retrieval enricher: without topics
\* or with two, with every choice of keys while online, with both keys while
\* offline
RetrievalRequests ==
  {r \in [id : 1..MaxRequests,
          topics : {<<>>, <<Str(Casa), Str(Sinais)>>},
          newsApiKey : {"", "nk"},
          bingKey : {"", "bk"},
          offline : BOOLEAN] :
     r.offline => (r.newsApiKey # "" /\ r.bingKey # "")}

\* the retrieval enricher, the requests of the App on their way
InitRetrieval ==
  /\ buffer = <<>>
  /\ timer = 0
  /\ cadence = DefaultCadenceMs
  /\ language = "pt-BR"
  /\ openaiKey = ""
  /\ offline = FALSE
  /\ intervals = {}
  /\ handles = 0
  /\ chunks = <<>>
  /\ appended = 0
  /\ toOrchestrator = <<>>
  /\ fromOrchestrator = <<>>
  /\ toEnricher \in {q \in SeqsUpTo(RetrievalRequests, MaxRequests) :
                       \A i \in 1..Len(q) : q[i].id = i}
  /\ fromEnricher = <<>>
  /\ enrichments = <<>>
  /\ mounted = TRUE
  /\ settings = [cadence |-> DefaultCadence, language |-> "pt-BR", openaiKey |-> ""]
  /\ storeOffline = FALSE
  /\ feed = <<>>
  /\ loading = <<>>
  /\ settingsChanges = 0
  /\ now = 1
  /\ history = <<>>
  /\ results = <<>>
  /\ argument = <<>>
  /\ value = NoCall

NextRetrieval ==
  \/ RetrievalReceives
  \/ \E i \in 1..Len(enrichments), outcome \in QueryOutcomes : RetrievalQueryEnds(i, outcome)

SpecRetrieval == InitRetrieval /\ [][NextRetrieval]_vars


\* ------------------------------------------------------------------ the whole cycle

\* the App is mounted, the user has entered a key, and the worker has handled
\* the two init messages of the mount and the one of the new key
InitCycle ==
  /\ buffer = <<>>
  /\ timer = 3
  /\ cadence = DefaultCadenceMs
  /\ language = "pt-BR"
  /\ openaiKey = "sk"
  /\ offline = FALSE
  /\ intervals = {[handle |-> 3, period |-> DefaultCadenceMs, left |-> DefaultCadenceMs]}
  /\ handles = 3
  /\ chunks = <<>>
  /\ appended = 0
  /\ toOrchestrator = <<>>
  /\ fromOrchestrator = <<>>
  /\ toEnricher = <<>>
  /\ fromEnricher = <<>>
  /\ enrichments = <<>>
  /\ mounted = TRUE
  /\ settings = [cadence |-> DefaultCadence, language |-> "pt-BR", openaiKey |-> "sk"]
  /\ storeOffline = FALSE
  /\ feed = <<>>
  /\ loading = <<>>
  /\ settingsChanges = 1
  /\ now = 1
  /\ history = <<>>
  /\ results = <<>>
  /\ argument = <<>>
  /\ value = NoCall

\* what is said in a cycle
CycleTexts == {Casa}

\* how the remote calls of a cycle end: each failure the two workers tell
\* apart, and an answer they can use
CycleExtractionOutcomes ==
  {Rejected, NotOk, BadBody,
   Ok(DataContent(ContentString(<<Word(Oi)>>))),
   Ok(DataContent(ContentString(<<Json(JArr(<<Str(Sinais)>>))>>)))}

CycleEnrichmentOutcomes ==
  {o \in EnrichmentOutcomes :
     o.kind # "ok" \/ o.data \in {Unparsed(TRUE), Parsed(3, 3)}}

\* speech, the orchestrator worker, the correlator and the enricher worker
NextCycle ==
  \/ \E text \in CycleTexts : SpeechFinal(text)
  \/ OrchestratorTranscript
  \/ Advance
  \/ \E t \in intervals : Tick(t)
  \/ \E k \in 1..Len(chunks), outcome \in CycleExtractionOutcomes : ExtractionEnds(k, outcome)
  \/ OnOrchestratorMessage
  \/ EnricherReceives
  \/ \E i \in 1..Len(enrichments) : HeadersArrive(i)
  \/ \E i \in 1..Len(enrichments), outcome \in CycleEnrichmentOutcomes : EnrichmentEnds(i, outcome)
  \/ OnEnricherMessage
  \/ ClockAdvances

SpecCycle == InitCycle /\ [][NextCycle]_vars


\* ------------------------------------------------------------------ speech and the worker

\* the recognition session, recognition.onresult and the transcript handler
\* of the orchestrator worker, between two ticks of its interval
NextSpeech ==
  \/ \E rs \in RecognitionSteps(results) : OnResult(rs)
  \/ RecognitionRestarts
  \/ OrchestratorTranscript

SpecSpeech == InitCycle /\ [][NextSpeech]_vars


\* ------------------------------------------------------------------ the text utilities alone

\* sentences a text is made of: words in capitals, a word said twice, short
\* words, a digit, a comma
SentencePool ==
  { <<"C", "a", "s", "a", " ", "s", "i", "n", "a", "i", "s", " ", "o", "i", " ", "c", "a", "s", "a">>,
    <<"p", "l", "a", "n", "o", ",", " ", "p", "o", "n", "t", "o", " ", "s", "a", "n", "t", "o">>,
    <<"a", "t", "l", "a", "s", " ", "j", "u", "n", "t", "a", "\n", "c", "7", "a", "7", " ", "C", "A", "n", "t", "o">>,
    <<"s", "o", "l">> }

\* how a text ends: with the period of its last sentence, with white space
\* after it, or without it
Endings == { <<".">>, <<".", " ">>, <<>> }

\* the text of sentences ss: a period and a space between two sentences
TextOf(ss, ending) == IF ss = <<>> THEN <<>> ELSE Join(ss, <<".", " ">>) \o ending

TextInputs == {TextOf(ss, e) : ss \in SeqsUpTo(SentencePool, MaxSentences), e \in Endings}

\* a text utility is about to be called with some text
InitText ==
  /\ buffer = <<>>
  /\ timer = 0
  /\ cadence = DefaultCadenceMs
  /\ language = "pt-BR"
  /\ openaiKey = ""
  /\ offline = FALSE
  /\ intervals = {}
  /\ handles = 0
  /\ chunks = <<>>
  /\ appended = 0
  /\ toOrchestrator = <<>>
  /\ fromOrchestrator = <<>>
  /\ toEnricher = <<>>
  /\ fromEnricher = <<>>
  /\ enrichments = <<>>
  /\ mounted = FALSE
  /\ settings = [cadence |-> DefaultCadence, language |-> "pt-BR", openaiKey |-> ""]
  /\ storeOffline = FALSE
  /\ feed = <<>>
  /\ loading = <<>>
  /\ settingsChanges = 0
  /\ now = 1
  /\ history = <<>>
  /\ results = <<>>
  /\ argument \in TextInputs
  /\ value = NoCall

\* extractKeywordsLocal is called and returns
CallExtractKeywords ==
  /\ value = NoCall
  /\ value' = [f |-> "extractKeywordsLocal", out |-> extractKeywordsLocal(argument)]
  /\ UNCHANGED <<orchestratorVars, channelVars, enrichments, appVars, now, history, results,
                 argument>>

\* summarizeLocal is called and returns
CallSummarize ==
  /\ value = NoCall
  /\ value' = [f |-> "summarizeLocal", out |-> summarizeLocal(argument)]
  /\ UNCHANGED <<orchestratorVars, channelVars, enrichments, appVars, now, history, results,
                 argument>>

NextText == CallExtractKeywords \/ CallSummarize

SpecText == InitText /\ [][NextText]_vars


\* ------------------------------------------------------------------ the reading of a parsed enrichment answer alone

\* String.prototype.startsWith
StartsWith(s, prefix) == Len(s) >= Len(prefix) /\ SubSeq(s, 1, Len(prefix)) = prefix

\* encodeURIComponent on the characters of the titles of the model: letters
\* and digits stay, a space becomes %20
encodeURIComponent(s) ==
  Flatten([i \in 1..Len(s) |-> IF s[i] = " " THEN <<"%", "2", "0">> ELSE <<s[i]>>])

Http == <<"h", "t", "t", "p">>

\* the search link put in the place of a url: https://www.google.com/search?q=
\* and the title encoded
SearchUrl(title) ==
  <<"h", "t", "t", "p", "s", ":", "/", "/", "w", "w", "w", ".", "g", "o", "o", "g", "l", "e",
    ".", "c", "o", "m", "/", "s", "e", "a", "r", "c", "h", "?", "q", "=">>
    \o encodeURIComponent(title)

\* a value counts as true: a string that is not empty, the number of the
\* model (not 0), an object
Truthy(v) == v.t \in {"num", "obj"} \/ (v.t = "str" /\ v.s # <<>>)

\* the entries of parsed.insights that are pushed: the strings of length > 0
CollectInsights(entries) ==
  LET kept == SelectSeq(entries, LAMBDA e : e.t = "str" /\ Len(e.s) > 0)
  IN [i \in 1..Len(kept) |-> kept[i].s]

\* parsed.news.forEach with news pushed so far: an entry that is no object or
\* has no truthy title is passed over; url is item.url or else "#"; calling
\* startsWith on a url that is no string throws, which ends the loop with
\* what was pushed; a url that does not start with http gives way to the
\* search link
RECURSIVE CollectNews(_, _)
CollectNews(items, news) ==
  IF items = <<>> THEN [news |-> news, threw |-> FALSE]
  ELSE LET item == Head(items) IN
       IF ~(item.t = "obj" /\ Truthy(item.title)) THEN CollectNews(Tail(items), news)
       ELSE LET url == IF Truthy(item.url) THEN item.url ELSE Str(<<"#">>) IN
            IF url.t # "str" THEN [news |-> news, threw |-> TRUE]
            ELSE CollectNews(Tail(items),
                   Append(news, [title |-> item.title,
                                 url |-> IF StartsWith(url.s, Http) THEN url.s
                                         ELSE SearchUrl(item.title.s)]))

\* what the inner try has pushed when it ends, and whether it ended in its
\* catch, which takes nothing back
ReadAnswer(parsed) ==
  LET n == CollectNews(parsed.news, <<>>)
  IN [insights |-> CollectInsights(parsed.insights), news |-> n.news, threw |-> n.threw]

isStringArray(entries) == \A i \in 1..Len(entries) : entries[i].t = "str"

isEnrichmentNewsArray(items) ==
  \A i \in 1..Len(items) :
    /\ items[i].t = "obj"
    /\ items[i].title.t = "str" /\ Len(Trim(items[i].title.s)) > 0
    /\ \/ items[i].url = Undefined
       \/ items[i].url.t = "str" /\ Len(Trim(items[i].url.s)) > 0

\* the typed variant: the insights are read only when every entry is a
\* string, trimmed, the empty ones left out; the news only when every entry
\* is an object with a title that is not blank and a url that is absent or
\* a string that is not blank; the title is trimmed, a url that does not
\* start with http gives way to the search link
ReadAnswerTyped(parsed) ==
  [insights |-> IF isStringArray(parsed.insights)
                THEN NonEmpty([i \in 1..Len(parsed.insights) |-> Trim(parsed.insights[i].s)])
                ELSE <<>>,
   news |-> IF isEnrichmentNewsArray(parsed.news)
            THEN [i \in 1..Len(parsed.news) |->
                   LET title == Trim(parsed.news[i].title.s)
                       url == IF parsed.news[i].url = Undefined THEN <<"#">>
                              ELSE parsed.news[i].url.s
                   IN [title |-> Str(title),
                       url |-> IF StartsWith(url, Http) THEN url ELSE SearchUrl(title)]]
            ELSE <<>>,
   threw |-> FALSE]

\* entries the generative model may put in insights: a sentence, the empty
\* string, a blank string, a number
InsightEntries == {Str(Oi), Str(<<>>), Str(<<" ">>), Num}

\* urls it may put in a news item: with the https or the http scheme,
\* relative, empty, absent, a host with no scheme whose name begins with
\* http (httpbin.io), a number
SuppliedUrls ==
  { Str(<<"h", "t", "t", "p", "s", ":", "/", "/", "a", ".", "i", "o">>),
    Str(<<"h", "t", "t", "p", ":", "/", "/", "a", ".", "i", "o">>),
    Str(<<"/", "a">>),
    Str(<<>>),
    Undefined,
    Str(<<"h", "t", "t", "p", "b", "i", "n", ".", "i", "o">>),
    Num }

\* entries it may put in news: an item with the title "sol 7" and one of the
\* urls, an item with an empty title, an item without title, a number
NewsEntries ==
  {[t |-> "obj", title |-> Str(<<"s", "o", "l", " ", "7">>), url |-> u] : u \in SuppliedUrls}
    \cup {[t |-> "obj", title |-> Str(<<>>), url |-> Undefined],
          [t |-> "obj", title |-> Undefined, url |-> Undefined],
          Num}

ParsedAnswers ==
  [insights : SeqsUpTo(InsightEntries, MaxEntries), news : SeqsUpTo(NewsEntries, MaxEntries)]

\* the answer of the generative model has been parsed and is about to be read
InitAnswer ==
  /\ buffer = <<>>
  /\ timer = 0
  /\ cadence = DefaultCadenceMs
  /\ language = "pt-BR"
  /\ openaiKey = ""
  /\ offline = FALSE
  /\ intervals = {}
  /\ handles = 0
  /\ chunks = <<>>
  /\ appended = 0
  /\ toOrchestrator = <<>>
  /\ fromOrchestrator = <<>>
  /\ toEnricher = <<>>
  /\ fromEnricher = <<>>
  /\ enrichments = <<>>
  /\ mounted = FALSE
  /\ settings = [cadence |-> DefaultCadence, language |-> "pt-BR", openaiKey |-> ""]
  /\ storeOffline = FALSE
  /\ feed = <<>>
  /\ loading = <<>>
  /\ settingsChanges = 0
  /\ now = 1
  /\ history = <<>>
  /\ results = <<>>
  /\ argument \in ParsedAnswers
  /\ value = NoCall

\* the enricher reads the parsed answer
CallReadAnswer ==
  /\ value.f = "none"
  /\ value' = [f |-> "readAnswer", out |-> ReadAnswer(argument)]
  /\ UNCHANGED <<orchestratorVars, channelVars, enrichments, appVars, now, history, results,
                 argument>>

\* the typed variant of the enricher reads the parsed answer
CallReadAnswerTyped ==
  /\ value.f = "none"
  /\ value' = [f |-> "readAnswerTyped", out |-> ReadAnswerTyped(argument)]
  /\ UNCHANGED <<orchestratorVars, channelVars, enrichments, appVars, now, history, results,
                 argument>>

NextAnswer == CallReadAnswer \/ CallReadAnswerTyped

SpecAnswer == InitAnswer /\ [][NextAnswer]_vars


\* ------------------------------------------------------------------ the orchestrator worker alone

\* messages a host can post to the worker: an init that changes the language
\* and the key, an init that changes the cadence, transcripts said online
\* and offline
WorkerMessages ==
  { InitMessage([cadence |-> DefaultCadence, language |-> "en-US", openaiKey |-> "sk"]),
    InitMessage([cadence |-> 30, language |-> "pt-BR", openaiKey |-> ""]),
    TranscriptMessage(Casa, FALSE),
    TranscriptMessage(Sinais, FALSE),
    TranscriptMessage(Casa, TRUE) }

\* the worker as the module is loaded, the messages of the run posted in
\* some order; argument keeps them
InitWorker ==
  /\ buffer = <<>>
  /\ timer = 0
  /\ cadence = DefaultCadenceMs
  /\ language = "pt-BR"
  /\ openaiKey = ""
  /\ offline = FALSE
  /\ intervals = {}
  /\ handles = 0
  /\ chunks = <<>>
  /\ appended = 0
  /\ toOrchestrator \in SeqsUpTo(WorkerMessages, MaxMessages)
  /\ fromOrchestrator = <<>>
  /\ toEnricher = <<>>
  /\ fromEnricher = <<>>
  /\ enrichments = <<>>
  /\ mounted = FALSE
  /\ settings = [cadence |-> DefaultCadence, language |-> "pt-BR", openaiKey |-> ""]
  /\ storeOffline = FALSE
  /\ feed = <<>>
  /\ loading = <<>>
  /\ settingsChanges = 0
  /\ now = 1
  /\ history = <<>>
  /\ results = <<>>
  /\ argument = toOrchestrator
  /\ value = NoCall

NextWorker ==
  \/ OrchestratorInit
  \/ OrchestratorTranscript
  \/ Advance
  \/ \E t \in intervals : Tick(t)
  \/ \E k \in 1..Len(chunks), outcome \in CycleExtractionOutcomes : ExtractionEnds(k, outcome)

SpecWorker == InitWorker /\ [][NextWorker]_vars


\* ------------------------------------------------------------------ settings that keep changing

\* the user changes one setting, any number of times: setSettings, then the
\* effect posts init
ChangeSettingsAgain(st) ==
  /\ mounted
  /\ Len(toOrchestrator) < MaxQueue
  /\ st \in OneFieldChanged(settings)
  /\ settings' = st
  /\ toOrchestrator' = Append(toOrchestrator, InitMessage(st))
  /\ UNCHANGED <<mounted, storeOffline, feed, loading, settingsChanges>>
  /\ UNCHANGED <<orchestratorVars, fromOrchestrator, toEnricher, fromEnricher, enrichments, envVars>>

\* recognition.onresult with a final result, the worker's queue having room
SpeechFinalQueued(text) ==
  /\ Len(toOrchestrator) < MaxQueue
  /\ SpeechFinal(text)

\* self.onmessage of the orchestrator, message of type init, the handles
\* counted modulo MaxHandles: the old interval is cleared, so the handle of
\* the new one is in use nowhere else
OrchestratorInitAgain ==
  /\ toOrchestrator # <<>>
  /\ Head(toOrchestrator).type = "init"
  /\ LET msg == Head(toOrchestrator)
         handle == (handles % MaxHandles) + 1
     IN /\ cadence' = msg.cadence * MsPerSecond
        /\ language' = msg.language
        /\ openaiKey' = msg.openaiKey
        /\ handles' = handle
        /\ timer' = handle
        /\ intervals' =
             (IF timer # 0 THEN clearInterval(intervals, timer) ELSE intervals)
               \cup {[handle |-> handle, period |-> msg.cadence * MsPerSecond,
                      left |-> msg.cadence * MsPerSecond]}
  /\ toOrchestrator' = Tail(toOrchestrator)
  /\ UNCHANGED <<buffer, offline, chunks, appended>>
  /\ UNCHANGED <<fromOrchestrator, toEnricher, fromEnricher, enrichments, appVars, envVars>>

\* the App after its mount, the worker after its first init
InitLive ==
  /\ buffer = <<>>
  /\ timer = 1
  /\ cadence = DefaultCadenceMs
  /\ language = "pt-BR"
  /\ openaiKey = ""
  /\ offline = FALSE
  /\ intervals = {[handle |-> 1, period |-> DefaultCadenceMs, left |-> DefaultCadenceMs]}
  /\ handles = 1
  /\ chunks = <<>>
  /\ appended = 0
  /\ toOrchestrator = <<>>
  /\ fromOrchestrator = <<>>
  /\ toEnricher = <<>>
  /\ fromEnricher = <<>>
  /\ enrichments = <<>>
  /\ mounted = TRUE
  /\ settings = [cadence |-> DefaultCadence, language |-> "pt-BR", openaiKey |-> ""]
  /\ storeOffline = FALSE
  /\ feed = <<>>
  /\ loading = <<>>
  /\ settingsChanges = 0
  /\ now = 1
  /\ history = <<>>
  /\ results = <<>>
  /\ argument = <<>>
  /\ value = NoCall

NextLive ==
  \/ \E st \in SettingsChoices : ChangeSettingsAgain(st)
  \/ \E text \in CycleTexts : SpeechFinalQueued(text)
  \/ OrchestratorInitAgain
  \/ OrchestratorTranscript
  \/ Advance
  \/ \E t \in intervals : Tick(t)
  \/ \E k \in 1..Len(chunks), outcome \in CycleExtractionOutcomes : ExtractionEnds(k, outcome)

\* an interval of the worker is due: its callback can run
TickDue == \E t \in intervals : t.left = 0

\* the event loop of the worker runs a handler whose message waits and a
\* timer callback that stays due; time goes on.  The condition on the
\* callback is weak fairness of Tick, written with TickDue, which holds
\* exactly where Tick can be taken
FairLive ==
  /\ WF_vars(OrchestratorInitAgain)
  /\ WF_vars(OrchestratorTranscript)
  /\ WF_vars(Advance)
  /\ []<>(~TickDue) \/ []<><<\E t \in intervals : Tick(t)>>_vars

SpecLive == InitLive /\ [][NextLive]_vars /\ FairLive


\* ------------------------------------------------------------------ the store alone

\* items the feed can hold: ids 1 and 2, not enriched or enriched
StoreItems ==
  {[id |-> i, topics |-> <<Str(Casa)>>, news |-> n, insights |-> <<>>, timestamp |-> i] :
     i \in 1..2, n \in {<<>>, <<Made("noTopic", <<>>)>>}}

\* answers the enricher can post: for the ids of the items and for an id no
\* item has
StoreAnswers ==
  {NoTopicsAnswer(i) : i \in 1..3} \cup {OfflineAnswer(i, <<Str(Casa)>>) : i \in 1..3}

\* the App with some feed, saved, and the answers of the enricher on their
\* way; argument keeps both
InitStore ==
  /\ buffer = <<>>
  /\ timer = 0
  /\ cadence = DefaultCadenceMs
  /\ language = "pt-BR"
  /\ openaiKey = ""
  /\ offline = FALSE
  /\ intervals = {}
  /\ handles = 0
  /\ chunks = <<>>
  /\ appended = 0
  /\ toOrchestrator = <<>>
  /\ fromOrchestrator = <<>>
  /\ toEnricher = <<>>
  /\ fromEnricher \in SeqsUpTo(StoreAnswers, MaxAnswers)
  /\ enrichments = <<>>
  /\ mounted = TRUE
  /\ settings = [cadence |-> DefaultCadence, language |-> "pt-BR", openaiKey |-> ""]
  /\ storeOffline = FALSE
  /\ feed \in SeqsUpTo(StoreItems, MaxResults)
  /\ loading = <<>>
  /\ settingsChanges = 0
  /\ now = 1
  /\ history = feed
  /\ results = <<>>
  /\ argument = [feed |-> feed, answers |-> fromEnricher]
  /\ value = NoCall

NextStore == OnEnricherMessage

SpecStore == InitStore /\ [][NextStore]_vars


\* ------------------------------------------------------------------ claims: the buffer and the timer

\* the places where fragment id is held: in the buffer (0) or in chunk k
Holders(id) ==
  {<<0, i>> : i \in {j \in 1..Len(buffer) : buffer[j].id = id}}
    \cup UNION {{<<k, i>> : i \in {j \in 1..Len(chunks[k].frags) : chunks[k].frags[j] = id}} :
                  k \in 1..Len(chunks)}

\* C1: every fragment appended to the buffer is, in every state, either still
\* in the buffer or in exactly one extracted chunk: held in exactly one place
C1_FragmentHeldOnce == \A id \in 1..appended : Cardinality(Holders(id)) = 1

\* a fragment arrived while an earlier extraction was waiting for its answer
C1_Witness ==
  \E k \in 1..Len(chunks) :
    /\ chunks[k].pending
    /\ buffer # <<>>
    /\ Cardinality(Holders(buffer[1].id)) = 1

\* the buffer holds a character that is no white space
HasText(frags) ==
  \E i \in 1..Len(frags) : \E j \in 1..Len(frags[i].text) : frags[i].text[j] \notin Whitespace

Blank(s) == \A i \in 1..Len(s) : s[i] \in Whitespace

\* t is s without the white space at its two ends
IsTrimOf(t, s) ==
  /\ t # <<>> => (t[1] \notin Whitespace /\ t[Len(t)] \notin Whitespace)
  /\ \E a \in 0..Len(s) : \E b \in a..Len(s) :
       /\ t = SubSeq(s, a + 1, b)
       /\ Blank(SubSeq(s, 1, a))
       /\ Blank(SubSeq(s, b + 1, Len(s)))

\* the last fragment id a chunk holds, 0 when there is no chunk
LastDrained ==
  IF chunks = <<>> THEN 0
  ELSE LET last == chunks[Len(chunks)].frags IN last[Len(last)]

TimerFires == \E t \in intervals : Tick(t)

\* C2: a tick that finds text in the buffer starts exactly one extraction; its
\* text is the trimmed concatenation, one space before each fragment and in
\* arrival order, of all the fragments appended since the last drain; the
\* buffer is empty afterwards
C2_TickExtractsBuffer ==
  [][(TimerFires /\ HasText(buffer)) =>
       /\ Len(chunks') = Len(chunks) + 1
       /\ SubSeq(chunks', 1, Len(chunks)) = chunks
       /\ buffer' = <<>>
       /\ LET c == chunks'[Len(chunks')] IN
          /\ c.frags = [i \in 1..(appended - LastDrained) |-> LastDrained + i]
          /\ c.frags = [i \in 1..Len(buffer) |-> buffer[i].id]
          /\ IsTrimOf(c.text, Flatten([i \in 1..Len(buffer) |-> <<" ">> \o buffer[i].text]))]_vars

\* one extraction has taken two fragments, white space at the end trimmed off
C2_Witness ==
  \E k \in 1..Len(chunks) :
    /\ Len(chunks[k].frags) = 2
    /\ chunks[k].text = Casa
    /\ buffer = <<>>

\* C3: a tick that finds no text in the buffer (no fragment, or white space
\* only) starts no extraction, sends no request, posts nothing, creates no
\* feed item and leaves the buffer, the settings and the offline flag alone
C3_BlankTickIsNoOp ==
  [][(TimerFires /\ ~HasText(buffer)) =>
       UNCHANGED <<buffer, chunks, fromOrchestrator, toEnricher, feed, cadence, language,
                   openaiKey, offline, settings, storeOffline>>]_vars

\* an interval is due while the buffer holds white space only
C3_Witness ==
  /\ buffer # <<>>
  /\ ~HasText(buffer)
  /\ \E t \in intervals : t.left = 0

\* C4: whatever init messages have arrived, at most one interval of the
\* worker is active: the one the last init created, with its cadence
C4_OneInterval ==
  /\ Cardinality(intervals) <= 1
  /\ \A t \in intervals : t.handle = timer /\ t.period = cadence /\ t.left <= t.period

\* three inits have been handled, the two of the mount back to back
C4_Witness == handles = 3 /\ Cardinality(intervals) = 1 /\ buffer # <<>>

\* C5: every result the orchestrator posts for a flushed text has topics
C5_TopicsNeverEmpty ==
  \A i \in 1..Len(fromOrchestrator) : Len(fromOrchestrator[i].topics) > 0

\* C6: every extraction whose remote call has ended has posted exactly one
\* result, and nothing else has been posted
C6_OneResultPerExtraction ==
  /\ \A k \in 1..Len(chunks) : ~chunks[k].pending => chunks[k].posted = 1
  /\ \A k \in 1..Len(chunks) : chunks[k].pending => chunks[k].posted = 0
  /\ Len(fromOrchestrator) = Cardinality({k \in 1..Len(chunks) : ~chunks[k].pending})

\* two remote extractions have ended
C6_Witness ==
  /\ Len(chunks) = 2
  /\ \A k \in 1..Len(chunks) : chunks[k].remote /\ ~chunks[k].pending


\* ------------------------------------------------------------------ claims: the feed

\* C7: an enrichment answer tagged id changes only the news and the insights
\* of the feed items whose id is id: the other items, the number and order
\* of the items, and the id, topics and timestamp of every item stay
C7_UpdateTouchesOnlyItsId ==
  [][OnEnricherMessage =>
       LET id == Head(fromEnricher).id IN
       /\ Len(feed') = Len(feed)
       /\ \A i \in 1..Len(feed) :
            /\ feed'[i].id = feed[i].id
            /\ feed'[i].topics = feed[i].topics
            /\ feed'[i].timestamp = feed[i].timestamp
            /\ feed[i].id # id => feed'[i] = feed[i]]_vars

\* the first of two items with different ids is enriched, the later one not
C7_Witness ==
  /\ Len(feed) = 2
  /\ feed[1].id # feed[2].id
  /\ feed[1].insights # <<>>
  /\ feed[2].insights = <<>>
  /\ feed[2].news = <<>>

\* the news and insights the enricher can answer for topics
AnswersFor(topics) ==
  (IF Len(topics) = 0 THEN {NoTopicsAnswer(0)} ELSE {OfflineAnswer(0, topics)})
    \cup {RemoteAnswer(0, topics, o) : o \in EnrichmentOutcomes}

\* C8: whatever the order in which the enrichments end, a feed item holds no
\* enrichment, or the news and insights computed from its own topics
C8_EnrichedFromOwnTopics ==
  \A i \in 1..Len(feed) :
    \/ feed[i].news = <<>> /\ feed[i].insights = <<>>
    \/ \E a \in AnswersFor(feed[i].topics) :
         a.news = feed[i].news /\ a.insights = feed[i].insights

\* C9: no two items of the feed have the same id
C9_UniqueIds == \A i, j \in 1..Len(feed) : i # j => feed[i].id # feed[j].id

\* C10: on each result the correlator appends an item with a fresh id and no
\* enrichment, hands the new feed to the store, and posts the enrich request
\* with that id and those topics: the id it posts is in the feed
C10_AppendSaveThenEnrich ==
  [][OnOrchestratorMessage =>
       /\ Len(feed') = Len(feed) + 1
       /\ SubSeq(feed', 1, Len(feed)) = feed
       /\ Len(toEnricher') = Len(toEnricher) + 1
       /\ SubSeq(toEnricher', 1, Len(toEnricher)) = toEnricher
       /\ LET item == feed'[Len(feed')]
              request == toEnricher'[Len(toEnricher')]
          IN /\ item.id \notin Ids(feed)
             /\ item.topics = Head(fromOrchestrator).topics
             /\ item.news = <<>>
             /\ item.insights = <<>>
             /\ history' = feed'
             /\ request.id = item.id
             /\ request.topics = item.topics
             /\ request.id \in Ids(feed')]_vars

\* C11: an enrichment answer whose id is the id of no item of the feed leaves
\* the feed as it is; the handler ends without an error and the answer is gone
C11_UnknownIdDropped ==
  [][(OnEnricherMessage /\ Head(fromEnricher).id \notin Ids(feed)) =>
       /\ feed' = feed
       /\ fromEnricher' = Tail(fromEnricher)]_vars

\* the cached feed has replaced an item whose enrichment was on its way; one
\* answer has been dropped since (the saved feed is the cached one again),
\* and another enrichment is still on its way
C11_Witness ==
  /\ mounted
  /\ loading = <<>>
  /\ feed = <<OldItem>>
  /\ history = <<OldItem>>
  /\ Len(toEnricher) + Len(enrichments) + Len(fromEnricher) > 0

\* C12: an item of the feed stays in the feed, at its place, in every later
\* state: no step of the store removes or replaces it
C12_ItemsStay ==
  [][/\ Len(feed') >= Len(feed)
     /\ \A i \in 1..Len(feed) : feed'[i].id = feed[i].id]_vars

\* ------------------------------------------------------------------ claims: the enricher

\* the requests a step answers: the one the handler takes from its queue and
\* answers at once, or the one whose wait for the network ends
Answered ==
  IF Len(toEnricher') < Len(toEnricher)
  THEN {Head(toEnricher)}
  ELSE {enrichments[i] : i \in {j \in 1..Len(enrichments) : enrichments' = RemoveAt(enrichments, j)}}

\* C13: every answer the enricher posts has news or insights, whatever the
\* request and however the remote call ended; the answer to a request with
\* topics has both
C13_AnswerNeverEmpty ==
  [][Len(fromEnricher') > Len(fromEnricher) =>
       LET a == fromEnricher'[Len(fromEnricher')] IN
       /\ a.news # <<>> \/ a.insights # <<>>
       /\ \A r \in Answered : Len(r.topics) > 0 => (a.news # <<>> /\ a.insights # <<>>)]_vars

\* C14: the end of the wait of a request (an answer, a rejection, a status
\* that is no success, a body that is no JSON, the timeout) posts exactly one
\* answer, with the id of that request, and nothing else
C14_OneAnswerPerRequest ==
  [][Len(enrichments') < Len(enrichments) =>
       /\ Len(fromEnricher') = Len(fromEnricher) + 1
       /\ SubSeq(fromEnricher', 1, Len(fromEnricher)) = fromEnricher
       /\ Answered # {}
       /\ \A r \in Answered : fromEnricher'[Len(fromEnricher')].id = r.id]_vars

\* a remote call has failed and the answer with the failure notice is posted
C14_Witness ==
  \E i \in 1..Len(fromEnricher) :
    /\ fromEnricher[i].insights # <<>>
    /\ fromEnricher[i].insights[1].k = "failed"
    /\ fromEnricher[i].news # <<>>

\* C15: the timeout bounds every wait of the enricher for the network: as
\* long as a request waits, the timer of withTimeout can end the wait, so a
\* remote end that never finishes cannot keep the request waiting for ever
C15_TimeoutBoundsEveryWait ==
  \A i \in 1..Len(enrichments) : ENABLED EnrichmentEnds(i, TimedOut)

C21_OfflinePlaceholders ==
  [][(/\ Len(toEnricher') < Len(toEnricher)
      /\ Len(Head(toEnricher).topics) > 0
      /\ (Head(toEnricher).offline \/ Head(toEnricher).openaiKey = "")) =>
       LET r == Head(toEnricher)
           n == Len(r.topics)
       IN /\ enrichments' = enrichments
          /\ Len(fromEnricher') = Len(fromEnricher) + 1
          /\ LET a == fromEnricher'[Len(fromEnricher')] IN
             /\ a.id = r.id
             /\ Len(a.insights) = n
             /\ \A i \in 1..n : a.insights[i] = Made("offline", <<r.topics[i]>>)
             /\ Len(a.news) = (IF n < 3 THEN n ELSE 3)
             /\ \A i \in 1..Len(a.news) : a.news[i] = Made("search", <<r.topics[i]>>)]_vars

\* a request with four topics has been answered offline: four insights and
\* three search links
C21_Witness ==
  \E i \in 1..Len(fromEnricher) :
    /\ Len(fromEnricher[i].insights) = 4
    /\ fromEnricher[i].insights[4].k = "offline"
    /\ Len(fromEnricher[i].news) = 3

\* C26: a request has one remote call and no other: a call is started only
\* by the step that takes the request from the queue, one call for that
\* request; a call goes from its fetch to the reading of its body and then
\* ends with one answer, and no step starts it again or starts another
C26_OneRemoteCallPerRequest ==
  [][enrichments' # enrichments =>
       \/ /\ Len(toEnricher') < Len(toEnricher)
          /\ enrichments' =
               Append(enrichments, [id |-> Head(toEnricher).id,
                                    topics |-> Head(toEnricher).topics, phase |-> "fetch"])
       \/ /\ toEnricher' = toEnricher
          /\ fromEnricher' = fromEnricher
          /\ \E i \in 1..Len(enrichments) :
               /\ enrichments[i].phase = "fetch"
               /\ enrichments' = [enrichments EXCEPT ![i].phase = "body"]
       \/ /\ toEnricher' = toEnricher
          /\ Len(fromEnricher') = Len(fromEnricher) + 1
          /\ \E i \in 1..Len(enrichments) :
               /\ enrichments' = RemoveAt(enrichments, i)
               /\ fromEnricher'[Len(fromEnricher')].id = enrichments[i].id]_vars

\* a call has failed: the failure notice is posted, and no call and no
\* request is left
C26_Witness ==
  /\ enrichments = <<>>
  /\ toEnricher = <<>>
  /\ \E i \in 1..Len(fromEnricher) :
       /\ fromEnricher[i].insights # <<>>
       /\ fromEnricher[i].insights[1].k = "failed"

\* the topics of request r the loop is through with after its first n queries
TopicsDone(r, n) ==
  IF n = Len(QueryOrder(r)) THEN Len(r.topics) ELSE QueryOrder(r)[n + 1][1] - 1

\* C27: whatever way a query of the retrieval loop ends, also when its fetch
\* rejects or its body cannot be read, the loop goes on with its next query
\* and posts nothing before the last one; a failed query adds no news; the
\* end of the last query posts one answer with the id of the request, the
\* news found and one insight per topic, in topic order
C27_FailedQueryDoesNotAbort ==
  [][\A i \in 1..Len(enrichments) : \A o \in QueryOutcomes :
       RetrievalQueryEnds(i, o) =>
         LET r == enrichments[i]
             n == r.done + 1
         IN /\ r.insights = EachTopic("identified", SubSeq(r.topics, 1, TopicsDone(r, r.done)))
            /\ n < Len(QueryOrder(r)) =>
                 /\ fromEnricher' = fromEnricher
                 /\ Len(enrichments') = Len(enrichments)
                 /\ enrichments'[i].done = n
                 /\ enrichments'[i].insights =
                      EachTopic("identified", SubSeq(r.topics, 1, TopicsDone(r, n)))
                 /\ o \in {"none", "reject", "badBody"} => enrichments'[i].news = r.news
                 /\ o = "article" => Len(enrichments'[i].news) = Len(r.news) + 1
            /\ n = Len(QueryOrder(r)) =>
                 /\ enrichments' = RemoveAt(enrichments, i)
                 /\ Len(fromEnricher') = Len(fromEnricher) + 1
                 /\ SubSeq(fromEnricher', 1, Len(fromEnricher)) = fromEnricher
                 /\ LET a == fromEnricher'[Len(fromEnricher')] IN
                    /\ a.id = r.id
                    /\ a.insights = EachTopic("identified", r.topics)
                    /\ o \in {"none", "reject", "badBody"} => a.news = r.news]_vars

\* a request with two topics and both keys is answered: NewsAPI gave nothing
\* for the first topic, Bing gave an article for the first topic and NewsAPI
\* one for the second, and both topics have their insight
C27_Witness ==
  \E i \in 1..Len(fromEnricher) :
    /\ fromEnricher[i].news = <<Made("bing", <<Str(Casa)>>), Made("newsapi", <<Str(Sinais)>>)>>
    /\ Len(fromEnricher[i].insights) >= 2

\* ------------------------------------------------------------------ claims: the extraction

\* the step is a flush: processBuffer has started an extraction
Flushes == Len(chunks') = Len(chunks) + 1

\* the result the step posts last
LastPosted == fromOrchestrator'[Len(fromOrchestrator')]

\* C16: a flush made while the offline flag is set or the key is empty sends
\* no remote request and posts, in the same step, one result whose topics
\* are extractKeywordsLocal of the flushed text
C16_LocalWhenOfflineOrNoKey ==
  [][(Flushes /\ (offline \/ openaiKey = "")) =>
       LET c == chunks'[Len(chunks')] IN
       /\ ~c.remote
       /\ ~c.pending
       /\ Len(fromOrchestrator') = Len(fromOrchestrator) + 1
       /\ LastPosted.topics = StrArray(extractKeywordsLocal(c.text))]_vars

\* a flush was made with a key while offline, and its result is posted
C16_Witness ==
  \E k \in 1..Len(chunks) :
    /\ chunks[k].key # ""
    /\ ~chunks[k].remote
    /\ chunks[k].text = Casa
    /\ \E i \in 1..Len(fromOrchestrator) : fromOrchestrator[i].topics = StrArray(<<Casa>>)

\* the answers with a success status whose body or content is not the JSON
\* the worker expects: res.json() rejects, or the inner try block throws
ParseFailures ==
  {o \in ExtractionOutcomes :
     o.kind = "badBody" \/ (o.kind = "ok" /\ ParseTopics(o.data).threw)}

\* the distinct words of more than four characters of a response content
LongWords(data) ==
  IF data.t = "content" /\ data.content.t = "str"
  THEN Dedupe(LongerThan(SplitWords(ContentChars(data.content.lex)), 4), {})
  ELSE <<>>

ResponseTopics ==
  [o \in ParseFailures |->
     IF o.kind = "ok"
     THEN StrArray(SubSeq(LongWords(o.data), 1,
                          IF Len(LongWords(o.data)) < 5 THEN Len(LongWords(o.data)) ELSE 5))
     ELSE <<>>]

C18_TopicsAreStrings ==
  \A i \in 1..Len(fromOrchestrator) :
    \A j \in 1..Len(fromOrchestrator[i].topics) : fromOrchestrator[i].topics[j].t = "str"

\* the extractions that await their remote answer
InFlight(cs) == {k \in 1..Len(cs) : cs[k].pending}

\* C22: a tick that finds text in the buffer starts a new extraction also
\* while earlier extractions await their remote answers: the buffer is
\* drained, the earlier extractions go on waiting, and with a key and online
\* the new one is in flight next to them
C22_PendingNeverBlocksFlush ==
  [][(TimerFires /\ HasText(buffer) /\ InFlight(chunks) # {}) =>
       /\ Len(chunks') = Len(chunks) + 1
       /\ buffer' = <<>>
       /\ InFlight(chunks) \subseteq InFlight(chunks')
       /\ ~(offline \/ openaiKey = "") =>
            Cardinality(InFlight(chunks')) = Cardinality(InFlight(chunks)) + 1
       /\ (offline \/ openaiKey = "") =>
            Len(fromOrchestrator') = Len(fromOrchestrator) + 1]_vars

\* two extractions are in flight at once
C22_Witness == Cardinality(InFlight(chunks)) = 2

\* C25: a transcript message appends one space and its text to the buffer,
\* overwrites the offline flag with its own and changes nothing else of the
\* worker; nothing else writes the flag or adds to the buffer; a flush is
\* local or remote by the flag of the last fragment of the buffer, whatever
\* the flags the earlier fragments came with
C25_LastFlagRulesTheFlush ==
  [][/\ OrchestratorTranscript =>
          /\ BufferString(buffer') =
               BufferString(buffer) \o <<" ">> \o Head(toOrchestrator).text
          /\ SubSeq(buffer', 1, Len(buffer)) = buffer
          /\ offline' = Head(toOrchestrator).offline
          /\ UNCHANGED <<chunks, fromOrchestrator, timer, cadence, language, openaiKey,
                         intervals>>
     /\ (offline' # offline \/ Len(buffer') > Len(buffer)) =>
          (toOrchestrator # <<>> /\ Head(toOrchestrator).type = "transcript"
             /\ toOrchestrator' = Tail(toOrchestrator))
     /\ Flushes =>
          /\ offline = buffer[Len(buffer)].offline
          /\ chunks'[Len(chunks')].remote = ~(buffer[Len(buffer)].offline \/ openaiKey = "")
          /\ Len(chunks'[Len(chunks')].frags) = Len(buffer)]_vars

\* with a key, the buffer holds a fragment that came with the offline flag
\* set and a later one that came without it, and an interval is due
C25_Witness ==
  /\ openaiKey = "sk"
  /\ Len(buffer) = 2
  /\ buffer[1].offline
  /\ ~buffer[2].offline
  /\ ~offline
  /\ HasText(buffer)
  /\ \E t \in intervals : t.left = 0

\* the fragments the buffer holds
Buffered == {buffer[i].id : i \in 1..Len(buffer)}

\* C19: when the remote call of an extraction ends, also with a failure, the
\* buffer is left as it is, no extraction is started, the extraction is over
\* for good, and its fragments are in no other chunk and not in the buffer
C19_NoRequeueNoRetry ==
  [][\A k \in 1..Len(chunks) :
       /\ (chunks[k].pending /\ ~chunks'[k].pending) =>
            /\ buffer' = buffer
            /\ Len(chunks') = Len(chunks)
            /\ \A j \in 1..Len(chunks) : j # k => chunks'[j] = chunks[j]
            /\ chunks'[k].frags = chunks[k].frags
            /\ \A i \in 1..Len(chunks[k].frags) :
                 /\ chunks[k].frags[i] \notin Buffered
                 /\ \A j \in 1..Len(chunks) : j # k =>
                      \A h \in 1..Len(chunks[j].frags) : chunks[j].frags[h] # chunks[k].frags[i]
       /\ ~chunks[k].pending => ~chunks'[k].pending]_vars

\* a remote extraction has ended with the local keywords of its text, and a
\* later extraction holds another text
C19_Witness ==
  /\ Len(chunks) = 2
  /\ chunks[1].remote
  /\ ~chunks[1].pending
  /\ chunks[1].text = Casa
  /\ chunks[2].text = Oi
  /\ \E i \in 1..Len(fromOrchestrator) : fromOrchestrator[i].topics = StrArray(<<Casa>>)


\* ------------------------------------------------------------------ claims: speech

\* C24: a transcript message is posted only by a speech result whose last
\* recognition result is final, and its text is the joined transcript; a
\* speech result whose last recognition result is interim posts nothing and
\* leaves the buffer of the orchestrator as it is; the buffer only takes
\* the text of a transcript message
C24_OnlyFinalResultsPosted ==
  [][/\ Len(toOrchestrator') > Len(toOrchestrator) =>
          /\ results' # <<>>
          /\ results'[Len(results')].isFinal
          /\ toOrchestrator' =
               Append(toOrchestrator, TranscriptMessage(Transcript(results'), storeOffline))
     /\ (results' # results /\ results' # <<>> /\ ~results'[Len(results')].isFinal) =>
          /\ toOrchestrator' = toOrchestrator
          /\ buffer' = buffer
     /\ buffer' # buffer =>
          /\ toOrchestrator # <<>>
          /\ BufferString(buffer') = BufferString(buffer) \o <<" ">> \o Head(toOrchestrator).text]_vars

\* one final result was posted and is in the buffer; the interim result that
\* followed it has posted nothing
C24_Witness ==
  /\ Len(results) = 2
  /\ results[1].isFinal
  /\ ~results[2].isFinal
  /\ toOrchestrator = <<>>
  /\ appended = 1
  /\ Len(buffer) = 1
  /\ buffer[1].text = results[1].transcript

\* ------------------------------------------------------------------ claims: the cycle

\* the answers of q that tell of a failed enrichment: the failure notice of
\* the outer catch block, or the raw text the inner catch block keeps
FailedAnswers(q) ==
  {i \in 1..Len(q) : q[i].insights # <<>> /\ q[i].insights[1].k \in {"failed", "raw"}}

\* an extraction or an enrichment has failed
SomeFailure ==
  \/ \E k \in 1..Len(chunks) : chunks[k].failed
  \/ FailedAnswers(fromEnricher) # {}
  \/ FailedAnswers(feed) # {}

\* C23: once an extraction or an enrichment has failed the cycle goes on: the
\* interval is alive and every waiting message can be handled; a tick that
\* finds text drains the buffer into a new extraction; an extraction that
\* ends posts one result; a result gives a new feed item and one enrich
\* request; a request is answered or sent to the network; the end of a wait
\* posts one answer; an answer for an item of the feed is merged into it
C23_CycleGoesOnAfterFailure ==
  [][SomeFailure =>
       /\ \E t \in intervals : t.handle = timer
       /\ \A t \in intervals : t.left = 0 => ENABLED Tick(t)
       /\ fromOrchestrator # <<>> => ENABLED OnOrchestratorMessage
       /\ toEnricher # <<>> => ENABLED EnricherReceives
       /\ fromEnricher # <<>> => ENABLED OnEnricherMessage
       /\ (TimerFires /\ HasText(buffer)) =>
            (Len(chunks') = Len(chunks) + 1 /\ buffer' = <<>>)
       /\ \A k \in 1..Len(chunks) :
            (chunks[k].pending /\ ~chunks'[k].pending) =>
              Len(fromOrchestrator') = Len(fromOrchestrator) + 1
       /\ OnOrchestratorMessage =>
            /\ Len(feed') = Len(feed) + 1
            /\ Len(toEnricher') = Len(toEnricher) + 1
            /\ toEnricher'[Len(toEnricher')].id = feed'[Len(feed')].id
       /\ Len(toEnricher') < Len(toEnricher) =>
            \/ Len(fromEnricher') = Len(fromEnricher) + 1
            \/ Len(enrichments') = Len(enrichments) + 1
       /\ Len(enrichments') < Len(enrichments) =>
            Len(fromEnricher') = Len(fromEnricher) + 1
       /\ OnEnricherMessage =>
            \A i \in 1..Len(feed) :
              feed[i].id = Head(fromEnricher).id =>
                /\ feed'[i].insights = Head(fromEnricher).insights
                /\ feed'[i].news = Head(fromEnricher).news]_vars

\* the first extraction has failed, the enrichment of the first feed item has
\* failed, and the item of a second extraction has been created and enriched
C23_Witness ==
  /\ Len(chunks) = 2
  /\ chunks[1].failed
  /\ Len(feed) = 2
  /\ 1 \in FailedAnswers(feed)
  /\ feed[2].id # feed[1].id
  /\ feed[2].insights # <<>>
  /\ feed[2].news # <<>>


\* ------------------------------------------------------------------ claims: the text utilities

\* s holds the word w from position a on: letters and digits between two
\* characters that are neither, or the ends of s
IsWordAt(s, a, w) ==
  /\ a + Len(w) - 1 <= Len(s)
  /\ SubSeq(s, a, a + Len(w) - 1) = w
  /\ a = 1 \/ ~IsLetterOrDigit(s[a - 1])
  /\ a + Len(w) - 1 = Len(s) \/ ~IsLetterOrDigit(s[a + Len(w)])

\* the places where s holds the word w
PlacesOf(s, w) == {a \in 1..Len(s) : IsWordAt(s, a, w)}

\* the first place where s holds the word w
FirstPlace(s, w) == CHOOSE a \in PlacesOf(s, w) : \A b \in PlacesOf(s, w) : a <= b

\* C28: what extractKeywordsLocal returns has no entry twice and at most 6
\* entries; every entry has more than 3 characters, all letters or digits
\* and none a capital, and is a word of the text written in small letters;
\* the entries are in the order in which they first occur in the text
C28_KeywordsUniqueShortListInOrder ==
  value.f = "extractKeywordsLocal" =>
    LET out == value.out
        low == ToLowerCase(argument)
    IN /\ Len(out) <= 6
       /\ \A i, j \in 1..Len(out) : i # j => out[i] # out[j]
       /\ \A i \in 1..Len(out) :
            /\ Len(out[i]) > 3
            /\ \A c \in 1..Len(out[i]) : IsLetterOrDigit(out[i][c]) /\ out[i][c] \notin Upper
            /\ PlacesOf(low, out[i]) # {}
       /\ \A i \in 1..(Len(out) - 1) : FirstPlace(low, out[i]) < FirstPlace(low, out[i + 1])

\* a text with more than six long words, one of them twice, has given its
\* first six; the word said twice, once with a capital, is there once
C28_Witness ==
  /\ value.f = "extractKeywordsLocal"
  /\ Len(value.out) = 6
  /\ value.out[1] = Casa
  /\ value.out[2] = Sinais
  /\ value.out[6] = <<"a", "t", "l", "a", "s">>

\* the sentences of a text of the pool: its parts between a period with
\* white space after it, the period at its end not counted
SentencesOf(text) ==
  CHOOSE ss \in SeqsUpTo(SentencePool, MaxSentences) :
    \E e \in Endings : TextOf(ss, e) = text

\* C29: what summarizeLocal returns is empty for the empty text; otherwise
\* it is the first two sentences of the text, a period and a space between
\* them, and one period at the end
C29_SummaryIsFirstTwoSentences ==
  value.f = "summarizeLocal" =>
    LET ss == SentencesOf(argument) IN
    value.out = IF ss = <<>> THEN <<>>
                ELSE Join(Slice(ss, 2), <<".", " ">>) \o <<".">>

\* a text is an absolute HTTP(S) URL: the scheme http or https, a colon and
\* two slashes, and something after them
IsAbsoluteHttpUrl(s) ==
  \E scheme \in {Http \o <<":", "/", "/">>, Http \o <<"s", ":", "/", "/">>} :
    StartsWith(s, scheme) /\ Len(s) > Len(scheme)

\* C30: every insight read from a parsed answer is a string that is not
\* empty; every news item read from it has a title that is a string and not
\* empty and a url that is an absolute HTTP(S) URL, which is either a url
\* the answer supplied or the search link made from the title
C30_InsightsAndNewsWellFormed ==
  value.f \in {"readAnswer", "readAnswerTyped"} =>
    /\ \A i \in 1..Len(value.out.insights) : value.out.insights[i] # <<>>
    /\ \A i \in 1..Len(value.out.news) :
         LET n == value.out.news[i] IN
         /\ n.title.t = "str" /\ n.title.s # <<>>
         /\ IsAbsoluteHttpUrl(n.url)
         /\ \/ n.url = SearchUrl(n.title.s)
            \/ \E j \in 1..Len(argument.news) :
                 argument.news[j].t = "obj" /\ argument.news[j].url = Str(n.url)

\* ------------------------------------------------------------------ claims: the store and the key/value store

\* C31: addFeedItem and updateFeedItem hand to saveHistory the feed they
\* have just stored, so the saved feed is the feed of the store after each
\* of them, and once the two are equal they stay equal
C31_SavedFeedIsTheFeed ==
  [][/\ (OnOrchestratorMessage \/ OnEnricherMessage) => history' = feed'
     /\ history = feed => history' = feed']_vars

\* ------------------------------------------------------------------ claims: the worker alone

\* C32: an init message sets the cadence to its cadence times 1000, the
\* language and the key to its own, leaves one interval, a new one, of that
\* period, and leaves the buffer and the offline flag as they are; a flush
\* takes every fragment of the buffer, with the key and the language of the
\* last init
C32_InitReplacesSettingsKeepsBuffer ==
  [][/\ OrchestratorInit =>
          LET msg == Head(toOrchestrator) IN
          /\ cadence' = msg.cadence * 1000
          /\ language' = msg.language
          /\ openaiKey' = msg.openaiKey
          /\ timer' # timer
          /\ intervals' = {[handle |-> timer', period |-> msg.cadence * 1000,
                            left |-> msg.cadence * 1000]}
          /\ buffer' = buffer
          /\ offline' = offline
     /\ Len(chunks') > Len(chunks) =>
          LET c == chunks'[Len(chunks')] IN
          /\ c.frags = FragmentIds(buffer)
          /\ c.key = openaiKey
          /\ c.language = language
          /\ \A t \in intervals : t.period = cadence]_vars

\* a fragment was appended after one init and before another that changed
\* the language and the key; the flush after it has taken the fragment, with
\* the new language and key
C32_Witness ==
  /\ Len(argument) = 3
  /\ argument[1].type = "init" /\ argument[1].openaiKey = ""
  /\ argument[2].type = "transcript"
  /\ argument[3].type = "init" /\ argument[3].openaiKey = "sk"
  /\ Len(chunks) = 1
  /\ chunks[1].frags = <<1>>
  /\ chunks[1].key = "sk"
  /\ chunks[1].language = "en-US"

\* ------------------------------------------------------------------ claims: offline

\* C33: while the store's offline flag is set, a flush starts no remote
\* extraction and the enricher starts no remote enrichment
C33_NoRemoteCallWhileOffline ==
  [][storeOffline =>
       /\ Len(chunks') > Len(chunks) => ~chunks'[Len(chunks')].remote
       /\ Len(enrichments') <= Len(enrichments)]_vars

\* ------------------------------------------------------------------ claims: progress

\* the fragments some extraction has taken
Extracted == UNION {{chunks[k].frags[i] : i \in 1..Len(chunks[k].frags)} : k \in 1..Len(chunks)}

\* C34: a fragment in the buffer is taken by an extraction in the end, also
\* when init messages keep arriving
C34_BufferedIsExtractedInTheEnd ==
  \A id \in 1..MaxFragments : (id \in Buffered) ~> (id \in Extracted)

\* C35: before the first init there is no interval and no extraction, and
\* the buffer only grows; the first extraction takes every fragment appended
\* so far, those appended before the first init among them
C35_NothingFlushedOrLostBeforeInit ==
  [][/\ timer = 0 => intervals = {} /\ chunks = <<>> /\ chunks' = <<>>
     /\ timer' = 0 =>
          /\ Len(buffer') >= Len(buffer)
          /\ SubSeq(buffer', 1, Len(buffer)) = buffer
          /\ Len(buffer') = appended'
     /\ (chunks = <<>> /\ chunks' # <<>>) =>
          chunks'[1].frags = [i \in 1..appended |-> i]]_vars

\* two fragments came before the first init; the first flush has taken both
C35_Witness ==
  /\ Len(argument) = 3
  /\ argument[1].type = "transcript"
  /\ argument[2].type = "transcript"
  /\ argument[3].type = "init"
  /\ Len(chunks) = 1
  /\ chunks[1].frags = <<1, 2>>

\* ------------------------------------------------------------------ claims: speech segments

\* C36: when the results of the session have all been posted (the last of
\* them is final, so a transcript message held them all) and a transcript
\* message is posted next, its text is that of the results that came since
C36_SegmentPostedOnce ==
  [][(/\ results # <<>>
      /\ results[Len(results)].isFinal
      /\ Len(toOrchestrator') > Len(toOrchestrator)
      /\ toOrchestrator'[Len(toOrchestrator')].type = "transcript")
       => /\ Len(results') > Len(results)
          /\ toOrchestrator'[Len(toOrchestrator')].text =
               Transcript(SubSeq(results', Len(results) + 1, Len(results')))]_vars

\* ------------------------------------------------------------------ claims: extractions in flight

\* the texts of the transcript messages of the run, in the order posted
RunTexts ==
  LET ts == SelectSeq(argument, LAMBDA m : m.type = "transcript")
  IN [i \in 1..Len(ts) |-> ts[i].text]

\* the text a flush of the fragments ids hands to its extraction
TextOfFragments(ids) == Trim(Flatten([i \in 1..Len(ids) |-> <<" ">> \o RunTexts[ids[i]]]))

\* C37: an extraction keeps the fragments, the text, the key, the language
\* and the choice between local and remote of its flush, whatever is
\* received later; a message handled changes no extraction and posts
\* nothing; an extraction that ends changes no other extraction and posts
\* what the text of its own fragments and the answer to its call give
C37_ExtractionInFlightIsIsolated ==
  [][/\ Len(chunks') >= Len(chunks)
     /\ \A k \in 1..Len(chunks) :
          /\ chunks'[k].frags = chunks[k].frags
          /\ chunks'[k].text = TextOfFragments(chunks[k].frags)
          /\ chunks'[k].key = chunks[k].key
          /\ chunks'[k].language = chunks[k].language
          /\ chunks'[k].remote = chunks[k].remote
     /\ Len(toOrchestrator') < Len(toOrchestrator) =>
          chunks' = chunks /\ fromOrchestrator' = fromOrchestrator
     /\ \A k \in 1..Len(chunks) :
          (chunks[k].pending /\ ~chunks'[k].pending) =>
            /\ \A j \in 1..Len(chunks) : j # k => chunks'[j] = chunks[j]
            /\ \E outcome \in CycleExtractionOutcomes :
                 fromOrchestrator' =
                   fromOrchestrator \o RemoteResult(TextOfFragments(chunks[k].frags), outcome)]_vars

\* two extractions of different texts were in flight at once; the second
\* has posted its result, the first still awaits its answer
C37_Witness ==
  /\ Len(chunks) = 2
  /\ chunks[1].pending
  /\ chunks[2].remote /\ ~chunks[2].pending
  /\ chunks[1].text = Casa
  /\ chunks[2].text = Sinais
  /\ Len(fromOrchestrator) = 1

\* ------------------------------------------------------------------ claims: the store alone

\* C38: once two answers have been applied to the feed: if they are the
\* same answer, the feed is the one a single application gives; if their
\* ids differ, the feed is the one the other order gives
C38_UpdateIdempotentAndCommutes ==
  (fromEnricher = <<>> /\ Len(argument.answers) = 2) =>
    LET a == argument.answers[1]
        b == argument.answers[2]
        Applied(f, m) == updateFeedItem(f, m.id, [news |-> m.news, insights |-> m.insights])
    IN /\ a = b => feed = Applied(argument.feed, a)
       /\ a.id # b.id => feed = Applied(Applied(argument.feed, b), a)

\* the same answer has been applied twice to a feed that holds its item,
\* already enriched, and another item
C38_Witness ==
  /\ fromEnricher = <<>>
  /\ Len(argument.answers) = 2
  /\ argument.answers[1] = argument.answers[2]
  /\ Len(feed) = 2
  /\ feed[1].id = argument.answers[1].id
  /\ feed[2].id # feed[1].id
  /\ argument.feed[1].news # <<>>
  /\ feed[1].news = argument.answers[1].news
  /\ feed # argument.feed

\* two answers with the ids of two items have been applied
C38_WitnessTwoIds ==
  /\ fromEnricher = <<>>
  /\ Len(argument.answers) = 2
  /\ Len(feed) = 2
  /\ feed[1].id = argument.answers[2].id
  /\ feed[2].id = argument.answers[1].id
  /\ feed[1].id # feed[2].id
  /\ feed[1].news # argument.feed[1].news
  /\ feed[2].news # argument.feed[2].news

====
